---- MODULE Spec2Model ----
(***************************************************************************)
(* calorieCounter: the persistence core (src/storage.py) and the tray      *)
(* handlers that drive it (src/calorie_widget.py).                         *)
(*                                                                         *)
(* Each process is a sequential program: pc[p] is its position, stack[p]   *)
(* the return labels of the calls in progress.  One action is one I/O call *)
(* of the source together with the in-memory statements around it; every   *)
(* I/O call may raise OSError and a process may be killed at any position *)
(* (Crash), both counted in faults.  The files are the shared state.       *)
(*                                                                         *)
(* Time is counted in ticks, TicksPerSecond to the second, so that the     *)
(* truncation done by isoformat(timespec='seconds') is visible.  An ISO    *)
(* timestamp string is modelled by the whole number of seconds it denotes. *)
(***************************************************************************)
EXTENDS Integers, Sequences, FiniteSets, TLC

VARIABLES
  now,          \* the wall clock, in ticks
  state_file,   \* state.json
  session_log,  \* session_log.jsonl
  archive_log,  \* log_archive.jsonl
  tmp,          \* the hidden temporary sibling of each store file
  lock_file,    \* app.lock
  flocked,      \* processes whose open descriptor of app.lock holds the flock
  pc, stack,    \* control state of each process
  mem,          \* CalorieTray / CalorieStorage attributes of each process
  loc,          \* local variables and arguments of the calls in progress
  gh,           \* history: values at the start of the running handler / call
  io,           \* history: the files read and written by the last step
  logged,       \* history: the entries appended to the active log and not
                \* evicted by a prune or removed by a clear since
  launchable,   \* the processes that may be started (fixed by Init)
  ops, faults   \* budgets that bound the exploration

vars == <<now, state_file, session_log, archive_log, tmp, lock_file, flocked,
          pc, stack, mem, loc, gh, io, logged, launchable, ops, faults>>

----------------------------------------------------------------------------
(* Bounds of the model *)

MaxOps == 4         \* launches + user actions + clock advances
MaxFaults == 2      \* I/O calls that raise OSError, and process kills
TicksPerSecond == 2 \* clock resolution below the second

(* Program constants *)

ActiveRetentionDays == 7
ARCHIVE_RETENTION_DAYS == 90
DEFAULT_LEFT_CLICK_AMOUNT == 50
DEFAULT_RIGHT_CLICK_AMOUNT == 10
SPIN_MIN == 0
SPIN_MAX == 5000

Procs == {1, 2}
Day == 24 * 60 * 60 * TicksPerSecond
AdvanceSteps == {1, ActiveRetentionDays * Day, ARCHIVE_RETENTION_DAYS * Day}

Paths == {"state", "session_log", "archive_log"}
Stores == Paths

\* max(0, x) without its lower bound.
Max_unclamped(a, b) == b

Max(a, b) == IF a >= b THEN a ELSE b

----------------------------------------------------------------------------
(* Timestamps *)

None == -1

\* datetime.isoformat(timespec='seconds'): the sub-second part is dropped.
isoformat_seconds(t) == t \div TicksPerSecond

\* parse_iso_datetime: None unless the value is a non-empty ISO string.
parse_iso_datetime(value) == IF value < 0 THEN None ELSE value * TicksPerSecond

----------------------------------------------------------------------------
(* Files *)

\* One line of a JSONL file.  kind "entry" is a JSON object; "junk" is text
\* that json.loads rejects (a torn or merged record); "value" is a JSON
\* document that is not an object (a number, a list, null).
Entry(ts, delta, after, action) ==
  [kind |-> "entry", timestamp |-> ts, delta |-> delta,
   calories_after |-> after, action |-> action]

Junk == [kind |-> "junk", timestamp |-> None, delta |-> 0,
         calories_after |-> 0, action |-> "none"]

Value == [kind |-> "value", timestamp |-> None, delta |-> 0,
          calories_after |-> 0, action |-> "none"]

\* A JSONL file: its complete (newline-terminated) lines, whether an
\* unterminated fragment of a record follows them, and whether everything
\* written has been forced to stable storage.
NoFile == [exists |-> FALSE, lines |-> <<>>, torn |-> FALSE, synced |-> TRUE]

TextFile(lines) == [exists |-> TRUE, lines |-> lines, torn |-> FALSE, synced |-> TRUE]

\* What state.json holds under one of its numeric keys: an integer, nothing
\* (the key is missing), null, or a string that is not a number.
Kinds == {"int", "missing", "null", "text"}
NumericKeys == {"calories", "left_click_amount", "right_click_amount"}
Integers3 == [k \in NumericKeys |-> "int"]

\* state.json: valid is FALSE when the text is not a JSON document, object is
\* FALSE when the document is not a JSON object (a list, a number, null).
\* session_start is None when the key is missing or is not an ISO string.
NoState == [exists |-> FALSE, valid |-> FALSE, object |-> TRUE, kinds |-> Integers3,
            calories |-> 0, left_click_amount |-> 0,
            right_click_amount |-> 0, session_start |-> None]

\* A file that holds only the beginning of what was to be written.
PartialText == [exists |-> TRUE, lines |-> <<>>, torn |-> TRUE, synced |-> FALSE]
PartialState == [NoState EXCEPT !.exists = TRUE]

\* What `for raw in f` yields: a trailing fragment is read as one more line.
ReadLines(f) == IF f.torn THEN Append(f.lines, Junk) ELSE f.lines

\* open(path, 'a'); write(line + '\n') for each line.  The first byte written
\* lands right behind an unterminated fragment, which makes one unparseable
\* line of the fragment and the first record.
AppendLines(f, ls, synced) ==
  IF ls = <<>> THEN [f EXCEPT !.exists = TRUE]
  ELSE [exists |-> TRUE,
        lines |-> IF f.torn THEN Append(f.lines, Junk) \o Tail(ls) ELSE f.lines \o ls,
        torn |-> FALSE,
        synced |-> synced]

\* An append cut short after k complete lines and a part of the next one.
AppendTorn(f, ls, k) ==
  [AppendLines(f, SubSeq(ls, 1, k), FALSE) EXCEPT !.torn = TRUE, !.synced = FALSE]

\* The entries of a file that have a parseable timestamp.
IsEvent(l) == l.kind = "entry" /\ parse_iso_datetime(l.timestamp) # None

Events(f) == SelectSeq(ReadLines(f), IsEvent)

----------------------------------------------------------------------------
(* Processes *)

\* Attributes of a process that is not running.
NoMem == [calories |-> 0, left_click_amount |-> 0, right_click_amount |-> 0,
          session_start |-> 0, lock_fd |-> FALSE]

\* What a view handler hands to its dialog: a message or formatted lines.
NoView == [kind |-> "none", message |-> "", lines |-> <<>>]
Message(text) == [kind |-> "message", message |-> text, lines |-> <<>>]
Lines(ls) == [kind |-> "lines", message |-> "", lines |-> ls]

\* What build_last_week_summary returns: a str (message) or a dict.  Of the
\* dict, lines are the text lines of the included days, daily_bars the days
\* with data, trailer the last lines; totals_net and day_has_data are the
\* tables the lines are made from.
NoSummary == [shape |-> "none", message |-> "", totals_net |-> <<>>, day_has_data |-> <<>>,
              lines |-> <<>>, daily_bars |-> <<>>, days_count |-> 0, total_net |-> 0,
              trailer |-> "none", average |-> [negative |-> FALSE, tenths |-> 0]]

NoLoc == [acq_ret |-> "none", needs_persist |-> FALSE,
          delta |-> 0, calories_after |-> 0, action |-> "none", ase_ret |-> "none",
          kept_lines |-> <<>>, archived_lines |-> <<>>, cutoff |-> 0,
          psl_result |-> "none", archive_ret |-> "none", pal_read |-> "none",
          aw_path |-> "state", aw_text |-> NoFile, aw_json |-> NoState,
          aw_staged |-> FALSE, aw_error |-> "none", aw_unlink_failed |-> FALSE,
          reset_time |-> 0, view |-> NoView, raised |-> "none",
          summary |-> NoSummary, dialog |-> "none"]

NoGhost == [handler |-> "none", calories_before |-> 0, session_start_before |-> 0,
            saves |-> 0, save_after_append |-> "none", save_log_synced |-> TRUE,
            loaded |-> NoState, read_failed |-> FALSE, releases |-> 0,
            log_before |-> NoFile, archive_before |-> NoFile,
            aw_old_text |-> NoFile, aw_old_json |-> NoState]

NoIo == [p |-> 0, reads |-> {}, writes |-> {}]

Io(p, reads, writes) == [p |-> p, reads |-> reads, writes |-> writes]

InitFiles ==
  /\ now = 0
  /\ state_file = NoState
  /\ session_log = NoFile
  /\ archive_log = NoFile
  /\ tmp = [f \in Paths |-> "absent"]
  /\ lock_file = [exists |-> FALSE, pid |-> 0]
  /\ flocked = {}
  /\ pc = [p \in Procs |-> "off"]
  /\ stack = [p \in Procs |-> <<>>]
  /\ mem = [p \in Procs |-> NoMem]
  /\ loc = [p \in Procs |-> NoLoc]
  /\ gh = [p \in Procs |-> NoGhost]
  /\ io = NoIo
  /\ logged = <<>>
  /\ ops = 0
  /\ faults = 0

\* One instance of the application is started, stopped and restarted.
Init == InitFiles /\ launchable = {1}

\* Two instances compete for the same store directory.
InitLock == InitFiles /\ launchable = Procs

\* The contents state.json is started with when it was not written by this
\* program version: missing, empty, a JSON document that is not an object,
\* and objects with any combination of kinds under the numeric keys.
StoredValues == {-5, 70}
StoredSessionStarts == {None, 0}

StateObject(kinds, calories, left, right, session_start) ==
  [exists |-> TRUE, valid |-> TRUE, object |-> TRUE, kinds |-> kinds,
   calories |-> IF kinds.calories = "int" THEN calories ELSE 0,
   left_click_amount |-> IF kinds.left_click_amount = "int" THEN left ELSE 0,
   right_click_amount |-> IF kinds.right_click_amount = "int" THEN right ELSE 0,
   session_start |-> session_start]

StateContents ==
  {NoState, PartialState, [PartialState EXCEPT !.valid = TRUE, !.object = FALSE]}
  \cup {StateObject(kinds, c, l, r, t) :
          kinds \in [NumericKeys -> Kinds], c \in StoredValues, l \in StoredValues,
          r \in StoredValues, t \in StoredSessionStarts}

\* One instance is started on a store directory with any of these state files.
InitLoad ==
  /\ now = 0
  /\ state_file \in StateContents
  /\ session_log = NoFile
  /\ archive_log = NoFile
  /\ tmp = [f \in Paths |-> "absent"]
  /\ lock_file = [exists |-> FALSE, pid |-> 0]
  /\ flocked = {}
  /\ pc = [p \in Procs |-> "off"]
  /\ stack = [p \in Procs |-> <<>>]
  /\ mem = [p \in Procs |-> NoMem]
  /\ loc = [p \in Procs |-> NoLoc]
  /\ gh = [p \in Procs |-> NoGhost]
  /\ io = NoIo
  /\ logged = <<>>
  /\ ops = 0
  /\ faults = 0
  /\ launchable = {1}

\* An I/O call raises OSError.
Fault == faults < MaxFaults /\ faults' = faults + 1
NoFault == faults' = faults

Goto(p, label) == pc' = [pc EXCEPT ![p] = label] /\ stack' = stack

Call(p, entry, ret) ==
  /\ pc' = [pc EXCEPT ![p] = entry]
  /\ stack' = [stack EXCEPT ![p] = <<ret>> \o @]

Return(p) ==
  /\ pc' = [pc EXCEPT ![p] = Head(stack[p])]
  /\ stack' = [stack EXCEPT ![p] = Tail(@)]

Files == <<state_file, session_log, archive_log, tmp>>
Budget == <<launchable, ops>>

----------------------------------------------------------------------------
(* The environment *)

\* Time passes.
Tick(d) ==
  /\ \A p \in Procs : pc[p] \in {"off", "idle"}
  /\ ops < MaxOps
  /\ ops' = ops + 1
  /\ now' = now + d
  /\ io' = NoIo
  /\ UNCHANGED <<Files, lock_file, flocked, pc, stack, mem, loc, gh, launchable, faults, logged>>

\* The process is killed: its memory is gone, the kernel closes its
\* descriptors (which drops its flock), the files stay as they are.
Crash(p) ==
  /\ pc[p] # "off"
  /\ Fault
  /\ pc' = [pc EXCEPT ![p] = "off"]
  /\ stack' = [stack EXCEPT ![p] = <<>>]
  /\ mem' = [mem EXCEPT ![p] = NoMem]
  /\ loc' = [loc EXCEPT ![p] = NoLoc]
  /\ gh' = [gh EXCEPT ![p] = NoGhost]
  /\ flocked' = flocked \ {p}
  /\ io' = Io(p, {}, {})
  /\ UNCHANGED <<now, Files, lock_file, launchable, ops, logged>>

\* main(): CalorieTray() is constructed in a fresh process.
Launch(p) ==
  /\ p \in launchable
  /\ pc[p] = "off"
  /\ ops < MaxOps
  /\ ops' = ops + 1
  /\ Call(p, "acq_open", "init_lock_check")
  /\ mem' = [mem EXCEPT ![p] = NoMem]
  /\ loc' = [loc EXCEPT ![p] = NoLoc]
  /\ gh' = [gh EXCEPT ![p] = [NoGhost EXCEPT !.handler = "init"]]
  /\ io' = Io(p, {}, {})
  /\ UNCHANGED <<now, Files, lock_file, flocked, launchable, faults, logged>>

----------------------------------------------------------------------------
(* CalorieStorage.acquire_instance_lock *)

\* flock(fd, LOCK_EX | LOCK_NB) is granted unless another open description
\* of the file holds the lock; it never waits.
flock_grants_always(p, holders) == TRUE
flock_grants(p, holders) == holders \ {p} = {}

\* A return of False: the descriptor, if any, is closed, which drops its flock.
acq_fail(p) ==
  /\ flocked' = flocked \ {p}
  /\ loc' = [loc EXCEPT ![p].acq_ret = "False"]
  /\ Return(p)

\* mkdir(parents, exist_ok); os.open(lock_path, O_RDWR | O_CREAT)
acq_open(p) ==
  /\ pc[p] = "acq_open"
  /\ io' = Io(p, {}, {})
  /\ \/ /\ NoFault
        /\ lock_file' = [lock_file EXCEPT !.exists = TRUE]
        /\ Goto(p, "acq_flock")
        /\ UNCHANGED <<flocked, loc>>
     \/ /\ Fault
        /\ acq_fail(p)
        /\ UNCHANGED lock_file
  /\ UNCHANGED <<now, Files, mem, gh, Budget, logged>>

acq_flock(p) ==
  /\ pc[p] = "acq_flock"
  /\ io' = Io(p, {}, {})
  /\ \/ /\ flock_grants(p, flocked)
        /\ NoFault
        /\ flocked' = flocked \cup {p}
        /\ Goto(p, "acq_write")
        /\ UNCHANGED loc
     \/ /\ Fault                           \* OSError
        /\ acq_fail(p)
  /\ UNCHANGED <<now, Files, lock_file, mem, gh, Budget, logged>>

\* flock raises BlockingIOError: another instance holds the lock.
acq_flock_blocked(p) ==
  /\ pc[p] = "acq_flock"
  /\ ~flock_grants(p, flocked)
  /\ io' = Io(p, {}, {})
  /\ NoFault
  /\ acq_fail(p)
  /\ UNCHANGED <<now, Files, lock_file, mem, gh, Budget, logged>>

\* os.ftruncate(fd, 0); os.write(fd, pid); self.lock_fd = fd; return True
acq_write(p) ==
  /\ pc[p] = "acq_write"
  /\ io' = Io(p, {}, {})
  /\ \/ /\ NoFault
        /\ lock_file' = [lock_file EXCEPT !.pid = p]
        /\ mem' = [mem EXCEPT ![p].lock_fd = TRUE]
        /\ loc' = [loc EXCEPT ![p].acq_ret = "True"]
        /\ Return(p)
        /\ UNCHANGED flocked
     \/ /\ Fault
        /\ acq_fail(p)
        /\ UNCHANGED <<lock_file, mem>>
  /\ UNCHANGED <<now, Files, gh, Budget, logged>>

----------------------------------------------------------------------------
(* CalorieStorage.release_instance_lock, called by any holder of a
   CalorieStorage object *)

\* A caller that holds no lock calls acquire_instance_lock().
client_acquire(p) ==
  /\ pc[p] = "client"
  /\ ~mem[p].lock_fd
  /\ ops < MaxOps
  /\ ops' = ops + 1
  /\ Call(p, "acq_open", "client")
  /\ loc' = [loc EXCEPT ![p].acq_ret = "none"]
  /\ gh' = [gh EXCEPT ![p].releases = 0]
  /\ io' = Io(p, {}, {})
  /\ UNCHANGED <<now, Files, lock_file, flocked, mem, launchable, faults, logged>>

\* release_instance_lock: if self.lock_fd is None: return
release_instance_lock(p) ==
  /\ pc[p] = "client"
  /\ ops < MaxOps
  /\ ops' = ops + 1
  /\ Goto(p, IF mem[p].lock_fd THEN "rel_unlock" ELSE "rel_ret")
  /\ gh' = [gh EXCEPT ![p].releases = @ + 1]
  /\ io' = Io(p, {}, {})
  /\ UNCHANGED <<now, Files, lock_file, flocked, mem, loc, launchable, faults, logged>>

\* fcntl.flock(self.lock_fd, LOCK_UN); OSError is logged.
rel_unlock(p) ==
  /\ pc[p] = "rel_unlock"
  /\ \/ NoFault /\ flocked' = flocked \ {p}
     \/ Fault /\ flocked' = flocked
  /\ Goto(p, "rel_close")
  /\ io' = Io(p, {}, {})
  /\ UNCHANGED <<now, Files, lock_file, mem, loc, gh, Budget, logged>>

\* The descriptor is gone after os.close, whether close reports an error or
\* not, and with it the flock of its open file description.
close_keeps_lock(p, holders) == holders
close_drops_lock(p, holders) == holders \ {p}

\* os.close(self.lock_fd), OSError is logged; self.lock_fd = None
rel_close(p) ==
  /\ pc[p] = "rel_close"
  /\ NoFault \/ Fault
  /\ flocked' = close_drops_lock(p, flocked)
  /\ mem' = [mem EXCEPT ![p].lock_fd = FALSE]
  /\ Goto(p, "rel_ret")
  /\ io' = Io(p, {}, {})
  /\ UNCHANGED <<now, Files, lock_file, loc, gh, Budget, logged>>

\* release_instance_lock returns to its caller.
rel_ret(p) ==
  /\ pc[p] = "rel_ret"
  /\ Goto(p, "client")
  /\ io' = Io(p, {}, {})
  /\ UNCHANGED <<now, Files, lock_file, flocked, mem, loc, gh, Budget, faults, logged>>

\* CalorieTray.__init__: if not acquire_instance_lock(): raise SystemExit(1)
init_proceeds_always(ret) == TRUE
init_proceeds(ret) == ret = "True"

init_lock_check(p) ==
  /\ pc[p] = "init_lock_check"
  /\ io' = Io(p, {}, {})
  /\ IF init_proceeds(loc[p].acq_ret)
       THEN /\ Goto(p, "init_load")
            /\ UNCHANGED <<mem, loc, gh>>
       ELSE /\ pc' = [pc EXCEPT ![p] = "off"]
            /\ stack' = [stack EXCEPT ![p] = <<>>]
            /\ mem' = [mem EXCEPT ![p] = NoMem]
            /\ loc' = [loc EXCEPT ![p] = NoLoc]
            /\ gh' = [gh EXCEPT ![p] = NoGhost]
  /\ UNCHANGED <<now, Files, lock_file, flocked, Budget, faults, logged>>

----------------------------------------------------------------------------
(* CalorieStorage.atomic_write_json / atomic_write_text *)

Dest(path) == IF path = "state" THEN <<state_file>>
              ELSE IF path = "session_log" THEN <<session_log>> ELSE <<archive_log>>

\* The payload of the write in progress, and what a cut-short write leaves.
Payload(p) == IF loc[p].aw_path = "state" THEN <<loc[p].aw_json>> ELSE <<loc[p].aw_text>>
Partial(path) == IF path = "state" THEN <<PartialState>> ELSE <<PartialText>>

\* os.replace runs only when the with-block ended without an exception.
aw_after_stage_always_replace(staged) == "aw_replace"
aw_after_stage(staged) == IF staged THEN "aw_replace" ELSE "aw_cleanup"

\* Entry of the writer: the arguments, and the destination as it is now.
BeginWrite(p, path, text, json) ==
  /\ loc' = [loc EXCEPT ![p].aw_path = path, ![p].aw_text = text, ![p].aw_json = json,
                        ![p].aw_staged = FALSE, ![p].aw_error = "none",
                        ![p].aw_unlink_failed = FALSE]

\* path.parent.mkdir(); with tmp_path.open('w') as f: write; flush; fsync
aw_stage(p) ==
  /\ pc[p] = "aw_stage"
  /\ LET path == loc[p].aw_path IN
     /\ io' = Io(p, {}, {})
     /\ \/ /\ NoFault
           /\ tmp' = [tmp EXCEPT ![path] = "complete"]
           /\ loc' = [loc EXCEPT ![p].aw_staged = TRUE]
           /\ Goto(p, aw_after_stage(TRUE))
        \/ /\ Fault                       \* mkdir raises, before the try block
           /\ loc' = [loc EXCEPT ![p].aw_error = "mkdir"]
           /\ Goto(p, "aw_ret")
           /\ UNCHANGED tmp
        \/ /\ Fault                       \* open raises
           /\ loc' = [loc EXCEPT ![p].aw_error = "open"]
           /\ Goto(p, aw_after_stage(FALSE))
           /\ UNCHANGED tmp
        \/ /\ Fault                       \* write, flush or fsync raises
           /\ tmp' = [tmp EXCEPT ![path] = "partial"]
           /\ loc' = [loc EXCEPT ![p].aw_error = "write"]
           /\ Goto(p, aw_after_stage(FALSE))
  /\ UNCHANGED <<now, state_file, session_log, archive_log, lock_file, flocked, mem, gh, Budget, logged>>

\* The logged entries that a rewrite of the active log by p leaves: a clear
\* removes them all, a prune evicts the ones older than its cutoff.
Remaining(p) ==
  IF gh[p].handler = "on_clear_log" THEN <<>>
  ELSE LET Recent(e) == parse_iso_datetime(e.timestamp) >= loc[p].cutoff
       IN  SelectSeq(logged, Recent)

\* os.replace(tmp_path, path): the destination becomes the temporary file.
aw_replace(p) ==
  /\ pc[p] = "aw_replace"
  /\ LET path == loc[p].aw_path
         moved == IF tmp[path] = "complete" THEN Payload(p)[1] ELSE Partial(path)[1]
     IN
     \/ /\ NoFault
        /\ tmp[path] # "absent"
        /\ state_file' = IF path = "state" THEN moved ELSE state_file
        /\ session_log' = IF path = "session_log" THEN moved ELSE session_log
        /\ archive_log' = IF path = "archive_log" THEN moved ELSE archive_log
        /\ tmp' = [tmp EXCEPT ![path] = "absent"]
        /\ io' = Io(p, {}, {path})
        /\ logged' = IF path = "session_log" THEN Remaining(p) ELSE logged
        /\ UNCHANGED loc
     \/ /\ IF tmp[path] = "absent" THEN NoFault ELSE Fault
        /\ loc' = [loc EXCEPT ![p].aw_error = "replace"]
        /\ io' = Io(p, {}, {})
        /\ UNCHANGED <<Files, logged>>
  /\ Goto(p, "aw_cleanup")
  /\ UNCHANGED <<now, lock_file, flocked, mem, gh, Budget>>

\* finally: if tmp_path.exists(): try: unlink() except OSError: warning
aw_cleanup(p) ==
  /\ pc[p] = "aw_cleanup"
  /\ LET path == loc[p].aw_path IN
     \/ /\ NoFault
        /\ tmp' = [tmp EXCEPT ![path] = "absent"]
        /\ UNCHANGED loc
     \/ /\ tmp[path] # "absent"
        /\ Fault
        /\ loc' = [loc EXCEPT ![p].aw_unlink_failed = TRUE]
        /\ UNCHANGED tmp
  /\ io' = Io(p, {}, {})
  /\ Goto(p, "aw_ret")
  /\ UNCHANGED <<now, state_file, session_log, archive_log, lock_file, flocked, mem, gh, Budget, logged>>

\* The writer returns, or raises the OSError to its caller (aw_error).
aw_ret(p) ==
  /\ pc[p] = "aw_ret"
  /\ loc' = [loc EXCEPT ![p].aw_path = NoLoc.aw_path, ![p].aw_text = NoFile,
                        ![p].aw_json = NoState, ![p].aw_staged = FALSE,
                        ![p].aw_unlink_failed = FALSE]
  /\ gh' = [gh EXCEPT ![p].aw_old_text = NoFile, ![p].aw_old_json = NoState]
  /\ Return(p)
  /\ io' = Io(p, {}, {})
  /\ UNCHANGED <<now, Files, lock_file, flocked, mem, Budget, faults, logged>>

----------------------------------------------------------------------------
(* CalorieStorage.load_state / save_state *)

Snapshot_of_empty_counter(m) ==
  [exists |-> TRUE, valid |-> TRUE, object |-> TRUE, kinds |-> Integers3,
   calories |-> 0,
   left_click_amount |-> m.left_click_amount,
   right_click_amount |-> m.right_click_amount,
   session_start |-> isoformat_seconds(m.session_start)]
Snapshot(m) ==
  [exists |-> TRUE, valid |-> TRUE, object |-> TRUE, kinds |-> Integers3,
   calories |-> m.calories,
   left_click_amount |-> m.left_click_amount,
   right_click_amount |-> m.right_click_amount,
   session_start |-> isoformat_seconds(m.session_start)]

\* save_state: atomic_write_json of the four fields; OSError is logged.
CallSaveFrom(p, ret, g) ==
  /\ BeginWrite(p, "state", NoFile, Snapshot(mem'[p]))
  /\ gh' = [g EXCEPT ![p].saves = @ + 1,
                      ![p].save_after_append = loc[p].ase_ret,
                      ![p].save_log_synced = session_log.synced,
                      ![p].aw_old_json = state_file]
  /\ Call(p, "aw_stage", ret)

CallSave(p, ret) == CallSaveFrom(p, ret, gh)

\* The final return of load_state: the defaults, to be saved.
Defaults(t) ==
  [calories |-> 0, left_click_amount |-> DEFAULT_LEFT_CLICK_AMOUNT,
   right_click_amount |-> DEFAULT_RIGHT_CLICK_AMOUNT, session_start |-> t,
   needs_persist |-> TRUE, raised |-> "none"]

\* An exception that load_state does not catch leaves it without a result.
Raised(t, exception) == [Defaults(t) EXCEPT !.raised = exception]

\* int(data.get(key, default)): int(None) raises TypeError, int('abc') raises
\* ValueError.
IntOf(kind) ==
  IF kind = "null" THEN "TypeError" ELSE IF kind = "text" THEN "ValueError" ELSE "none"

\* data.get(key, default)
Get(f, key, default) == IF f.kinds[key] = "missing" THEN default ELSE f[key]

\* What load_state does with the file f read at time t.  The three int(...)
\* are evaluated in order and the first exception ends the try block:
\* JSONDecodeError and ValueError are caught and followed by the defaults for
\* all four fields, AttributeError (data has no .get) and TypeError are not
\* caught.
load_state(f, t) ==
  IF ~f.exists \/ ~f.valid THEN Defaults(t)
  ELSE IF ~f.object THEN Raised(t, "AttributeError")
  ELSE
    LET errors == SelectSeq(<<IntOf(f.kinds.calories), IntOf(f.kinds.left_click_amount),
                              IntOf(f.kinds.right_click_amount)>>,
                            LAMBDA e : e # "none")
        session_start == parse_iso_datetime(f.session_start)
    IN  IF errors # <<>>
          THEN IF Head(errors) = "ValueError" THEN Defaults(t) ELSE Raised(t, Head(errors))
          ELSE [calories |-> Max(0, Get(f, "calories", 0)),
                left_click_amount |->
                  Max(0, Get(f, "left_click_amount", DEFAULT_LEFT_CLICK_AMOUNT)),
                right_click_amount |->
                  Max(0, Get(f, "right_click_amount", DEFAULT_RIGHT_CLICK_AMOUNT)),
                session_start |-> IF session_start = None THEN t ELSE session_start,
                needs_persist |-> session_start = None,
                raised |-> "none"]

\* __init__: load_state(...); if state_needs_persist: save_state(...)
\* __init__: if state_needs_persist: self.storage.save_state(...)
saves_first_never(needs_persist) == FALSE
saves_first(needs_persist) == needs_persist

init_load(p) ==
  /\ pc[p] = "init_load"
  /\ \E failed \in BOOLEAN :
       LET r == IF failed THEN Defaults(now) ELSE load_state(state_file, now)
           g == [gh EXCEPT ![p].loaded = state_file, ![p].read_failed = failed]
       IN
       /\ IF failed THEN state_file.exists /\ Fault ELSE NoFault
       /\ IF r.raised # "none"
            THEN /\ Goto(p, "init_raised")
                 /\ loc' = [loc EXCEPT ![p].raised = r.raised]
                 /\ gh' = g
                 /\ UNCHANGED mem
            ELSE /\ mem' = [mem EXCEPT ![p].calories = r.calories,
                                       ![p].left_click_amount = r.left_click_amount,
                                       ![p].right_click_amount = r.right_click_amount,
                                       ![p].session_start = r.session_start]
                 /\ IF saves_first(r.needs_persist)
                      THEN CallSaveFrom(p, "init_prune", g)
                      ELSE Goto(p, "init_prune") /\ gh' = g /\ UNCHANGED loc
  /\ io' = Io(p, IF state_file.exists THEN {"state"} ELSE {}, {})
  /\ UNCHANGED <<now, Files, lock_file, flocked, Budget, logged>>

\* The exception leaves __init__ and main(): the interpreter prints the
\* traceback and exits, the kernel closes the lock descriptor.
init_raised(p) ==
  /\ pc[p] = "init_raised"
  /\ pc' = [pc EXCEPT ![p] = "off"]
  /\ stack' = [stack EXCEPT ![p] = <<>>]
  /\ mem' = [mem EXCEPT ![p] = NoMem]
  /\ loc' = [loc EXCEPT ![p] = NoLoc]
  /\ gh' = [gh EXCEPT ![p] = NoGhost]
  /\ flocked' = flocked \ {p}
  /\ io' = Io(p, {}, {})
  /\ UNCHANGED <<now, Files, lock_file, Budget, faults, logged>>

----------------------------------------------------------------------------
(* CalorieStorage.prune_session_log / append_archive_lines / prune_archive_log *)

\* if timestamp >= cutoff: kept_lines.append(...) else: archived_lines.append(...)
keeps_any_age(timestamp, cutoff) == timestamp # None
keeps(timestamp, cutoff) == timestamp # None /\ timestamp >= cutoff

\* The loop over the lines of a log: malformed lines and lines without a
\* parseable timestamp are skipped, the others are split at the cutoff.
KeptLines_but_oldest(f, cutoff) ==
  LET Keep(l) == l.kind = "entry" /\ keeps(parse_iso_datetime(l.timestamp), cutoff)
      kept == SelectSeq(ReadLines(f), Keep)
  IN  IF kept = <<>> THEN kept ELSE Tail(kept)

KeptLines(f, cutoff) ==
  LET Keep(l) == l.kind = "entry" /\ keeps(parse_iso_datetime(l.timestamp), cutoff)
  IN  SelectSeq(ReadLines(f), Keep)

ArchivedLines_none(f, cutoff) == <<>>
ArchivedLines(f, cutoff) ==
  LET Old(l) == IsEvent(l) /\ ~keeps(parse_iso_datetime(l.timestamp), cutoff)
  IN  SelectSeq(ReadLines(f), Old)

\* if archived_lines and not self.append_archive_lines(archived_lines): return
psl_after_archive_always_rewrite(appended) == "psl_rewrite"
psl_after_archive(appended) == IF appended THEN "psl_rewrite" ELSE "psl_ret"

\* except OSError: LOGGER.exception('Failed to prune session log'): the
\* call returns.
psl_on_oserror_raised == "psl_raised"
psl_on_oserror == "psl_ret"

\* if not exists: prune_archive_log(); return.  Otherwise read and split.
\* item.get('timestamp') raises AttributeError when json.loads returned
\* something other than a dict; no except clause of the readers catches it.
get_raises(f) == \E i \in 1 .. Len(ReadLines(f)) : ReadLines(f)[i].kind = "value"

psl_read(p) ==
  /\ pc[p] = "psl_read"
  /\ gh' = [gh EXCEPT ![p].log_before = session_log, ![p].archive_before = archive_log]
  /\ io' = Io(p, IF session_log.exists THEN {"session_log"} ELSE {}, {})
  /\ IF ~session_log.exists
       THEN /\ NoFault
            /\ loc' = [loc EXCEPT ![p].psl_result = "no_file", ![p].archive_ret = "none",
                                  ![p].kept_lines = <<>>, ![p].archived_lines = <<>>]
            /\ Call(p, "pal_read", "psl_ret")
       ELSE \/ /\ NoFault
               /\ get_raises(session_log)
               /\ loc' = [loc EXCEPT ![p].psl_result = "raised",
                                     ![p].archive_ret = "none",
                                     ![p].kept_lines = <<>>, ![p].archived_lines = <<>>]
               /\ Goto(p, "psl_raised")
            \/ /\ NoFault
               /\ ~get_raises(session_log)
               /\ LET cutoff == now - ActiveRetentionDays * Day
                      archived == ArchivedLines(session_log, cutoff)
                  IN  /\ loc' = [loc EXCEPT ![p].psl_result = "running",
                                            ![p].archive_ret = "none",
                                            ![p].cutoff = cutoff,
                                            ![p].kept_lines = KeptLines(session_log, cutoff),
                                            ![p].archived_lines = archived]
                      /\ Goto(p, IF archived # <<>> THEN "psl_archive" ELSE "psl_rewrite")
            \/ /\ Fault
               /\ loc' = [loc EXCEPT ![p].psl_result = "read_failed",
                                     ![p].archive_ret = "none",
                                     ![p].kept_lines = <<>>, ![p].archived_lines = <<>>]
               /\ Goto(p, psl_on_oserror)
  /\ UNCHANGED <<now, Files, lock_file, flocked, mem, Budget, logged>>

\* append_archive_lines(archived_lines): open 'a', write each line, flush, fsync.
psl_archive(p) ==
  /\ pc[p] = "psl_archive"
  /\ io' = Io(p, {}, {"archive_log"})
  /\ LET lines == loc[p].archived_lines IN
     \/ /\ NoFault
        /\ archive_log' = AppendLines(archive_log, lines, TRUE)
        /\ loc' = [loc EXCEPT ![p].archive_ret = "True"]
        /\ Goto(p, psl_after_archive(TRUE))
     \/ /\ Fault                          \* mkdir or open raises
        /\ archive_log' = archive_log
        /\ loc' = [loc EXCEPT ![p].psl_result = "archive_failed", ![p].archive_ret = "False"]
        /\ Goto(p, psl_after_archive(FALSE))
     \/ /\ Fault                          \* a write raises part-way
        /\ \E k \in 0 .. Len(lines) - 1 : archive_log' = AppendTorn(archive_log, lines, k)
        /\ loc' = [loc EXCEPT ![p].psl_result = "archive_failed", ![p].archive_ret = "False"]
        /\ Goto(p, psl_after_archive(FALSE))
     \/ /\ Fault                          \* fsync raises, all lines written
        /\ archive_log' = AppendLines(archive_log, lines, FALSE)
        /\ loc' = [loc EXCEPT ![p].psl_result = "archive_failed", ![p].archive_ret = "False"]
        /\ Goto(p, psl_after_archive(FALSE))
  /\ UNCHANGED <<now, state_file, session_log, tmp, lock_file, flocked, mem, gh, Budget, logged>>

\* payload = '\n'.join(kept_lines) (+ '\n'); atomic_write_text(session_log_path, payload)
psl_rewrite(p) ==
  /\ pc[p] = "psl_rewrite"
  /\ BeginWrite(p, "session_log", TextFile(loc[p].kept_lines), NoState)
  /\ gh' = [gh EXCEPT ![p].aw_old_text = session_log]
  /\ Call(p, "aw_stage", "psl_after_rewrite")
  /\ io' = Io(p, {}, {})
  /\ UNCHANGED <<now, Files, lock_file, flocked, mem, Budget, faults, logged>>

\* self.prune_archive_log() unless atomic_write_text raised (except OSError)
psl_after_rewrite(p) ==
  /\ pc[p] = "psl_after_rewrite"
  /\ io' = Io(p, {}, {})
  /\ IF loc[p].aw_error # "none"
       THEN /\ loc' = [loc EXCEPT ![p].psl_result = "rewrite_failed", ![p].aw_error = "none"]
            /\ Goto(p, "psl_ret")
       ELSE /\ loc' = [loc EXCEPT ![p].psl_result = "rewritten"]
            /\ Call(p, "pal_read", "psl_ret")
  /\ UNCHANGED <<now, Files, lock_file, flocked, mem, gh, Budget, faults, logged>>

\* The AttributeError leaves prune_session_log and every caller above it: the
\* constructor does not return and the process ends; raised under a menu
\* handler, GTK reports it and the main loop goes on.
psl_raised(p) ==
  /\ pc[p] = "psl_raised"
  /\ IF gh[p].handler = "init"
       THEN /\ pc' = [pc EXCEPT ![p] = "off"]
            /\ mem' = [mem EXCEPT ![p] = NoMem]
            /\ flocked' = flocked \ {p}
       ELSE /\ pc' = [pc EXCEPT ![p] = "idle"]
            /\ UNCHANGED <<mem, flocked>>
  /\ stack' = [stack EXCEPT ![p] = <<>>]
  /\ loc' = [loc EXCEPT ![p] = NoLoc]
  /\ gh' = [gh EXCEPT ![p] = NoGhost]
  /\ io' = Io(p, {}, {})
  /\ UNCHANGED <<now, Files, lock_file, Budget, faults, logged>>

\* prune_session_log returns to its caller.
psl_ret(p) ==
  /\ pc[p] = "psl_ret"
  /\ loc' = [loc EXCEPT ![p].kept_lines = <<>>, ![p].archived_lines = <<>>,
                        ![p].cutoff = 0, ![p].psl_result = "none",
                        ![p].archive_ret = "none", ![p].aw_error = "none",
                        ![p].pal_read = "none"]
  /\ gh' = [gh EXCEPT ![p].log_before = NoFile, ![p].archive_before = NoFile]
  /\ Return(p)
  /\ io' = Io(p, {}, {})
  /\ UNCHANGED <<now, Files, lock_file, flocked, mem, Budget, faults, logged>>

\* cutoff = now - timedelta(days=self.archive_retention_days)
ArchiveCutoff_epoch(t) == 0
ArchiveCutoff(t) == t - ARCHIVE_RETENTION_DAYS * Day

\* prune_archive_log: keep the archive lines not older than the retention.
pal_read(p) ==
  /\ pc[p] = "pal_read"
  /\ io' = Io(p, IF archive_log.exists THEN {"archive_log"} ELSE {}, {})
  /\ IF ~archive_log.exists
       THEN /\ NoFault
            /\ loc' = [loc EXCEPT ![p].pal_read = "no_file"]
            /\ Return(p)
            /\ UNCHANGED gh
       ELSE \/ /\ NoFault
               /\ LET cutoff == ArchiveCutoff(now) IN
                  loc' = [loc EXCEPT ![p].pal_read = "ok",
                            ![p].aw_path = "archive_log",
                            ![p].aw_text = TextFile(KeptLines(archive_log, cutoff)),
                            ![p].aw_json = NoState, ![p].aw_staged = FALSE,
                            ![p].aw_error = "none", ![p].aw_unlink_failed = FALSE]
               /\ gh' = [gh EXCEPT ![p].aw_old_text = archive_log]
               /\ Goto(p, "aw_stage")
            \/ /\ Fault
               /\ loc' = [loc EXCEPT ![p].pal_read = "failed"]
               /\ Return(p)
               /\ UNCHANGED gh
  /\ UNCHANGED <<now, Files, lock_file, flocked, mem, Budget, logged>>

----------------------------------------------------------------------------
(* CalorieStorage.append_session_event / ensure_initial_log_entry *)

\* The arguments of append_session_event, set by the calling handler.
CallAppend_counter_before(p, delta, after, action, ret) ==
  /\ loc' = [loc EXCEPT ![p].delta = delta, ![p].calories_after = after - delta,
                        ![p].action = action, ![p].ase_ret = "none"]
  /\ Call(p, "ase_write", ret)
CallAppend(p, delta, after, action, ret) ==
  /\ loc' = [loc EXCEPT ![p].delta = delta, ![p].calories_after = after,
                        ![p].action = action, ![p].ase_ret = "none"]
  /\ Call(p, "ase_write", ret)

\* entry = {...now...}; open 'a'; write(json.dumps(entry) + '\n'); no fsync.
ase_write(p) ==
  /\ pc[p] = "ase_write"
  /\ io' = Io(p, {}, {"session_log"})
  /\ LET entry == Entry(isoformat_seconds(now), loc[p].delta,
                        loc[p].calories_after, loc[p].action)
     IN
     \/ /\ NoFault
        /\ session_log' = AppendLines(session_log, <<entry>>, FALSE)
        /\ logged' = Append(logged, entry)
        /\ loc' = loc
        /\ Call(p, "psl_read", "ase_ret")
     \/ /\ Fault                          \* mkdir or open raises
        /\ session_log' = session_log
        /\ logged' = logged
        /\ loc' = [loc EXCEPT ![p].ase_ret = "False"]
        /\ Return(p)
     \/ /\ Fault                          \* the write raises part-way
        /\ session_log' = AppendTorn(session_log, <<entry>>, 0)
        /\ logged' = logged
        /\ loc' = [loc EXCEPT ![p].ase_ret = "False"]
        /\ Return(p)
  /\ UNCHANGED <<now, state_file, archive_log, tmp, lock_file, flocked, mem, gh, Budget>>

\* self.prune_session_log() has returned; return True
ase_ret(p) ==
  /\ pc[p] = "ase_ret"
  /\ loc' = [loc EXCEPT ![p].ase_ret = "True"]
  /\ Return(p)
  /\ io' = Io(p, {}, {})
  /\ UNCHANGED <<now, Files, lock_file, flocked, mem, gh, Budget, faults, logged>>

\* __init__: self.storage.prune_session_log()
init_prune(p) ==
  /\ pc[p] = "init_prune"
  /\ Call(p, "psl_read", "init_ensure")
  /\ loc' = [loc EXCEPT ![p].aw_error = "none"]
  /\ io' = Io(p, {}, {})
  /\ UNCHANGED <<now, Files, lock_file, flocked, mem, gh, Budget, faults, logged>>

\* session_log_has_events: some line has a parseable timestamp.
session_log_has_events_always(f) == TRUE
session_log_has_events(f) == f.exists /\ Events(f) # <<>>

\* ensure_initial_log_entry: if self.session_log_has_events(): return
init_ensure(p) ==
  /\ pc[p] = "init_ensure"
  /\ io' = Io(p, IF session_log.exists THEN {"session_log"} ELSE {}, {})
  /\ \/ /\ NoFault
        /\ Goto(p, IF session_log_has_events(session_log) THEN "init_ret" ELSE "eil_write")
     \/ /\ session_log.exists             \* the read raises: treated as no events
        /\ Fault
        /\ Goto(p, "eil_write")
  /\ UNCHANGED <<now, Files, lock_file, flocked, mem, loc, gh, Budget, logged>>

\* the 'init' entry: open 'a'; write; flush; fsync; OSError is logged.
\* entry = {'timestamp': session_start.isoformat(timespec='seconds'),
\*          'delta': 0, 'calories_after': int(calories), 'action': 'init'}
InitEntry_of_empty_counter(session_start, calories) ==
  Entry(isoformat_seconds(session_start), 0, 0, "init")
InitEntry(session_start, calories) ==
  Entry(isoformat_seconds(session_start), 0, calories, "init")

eil_write(p) ==
  /\ pc[p] = "eil_write"
  /\ io' = Io(p, {}, {"session_log"})
  /\ LET entry == InitEntry(mem[p].session_start, mem[p].calories)
     IN
     \/ /\ NoFault
        /\ session_log' = AppendLines(session_log, <<entry>>, TRUE)
        /\ logged' = Append(logged, entry)
     \/ /\ Fault                          \* mkdir or open raises
        /\ session_log' = session_log
        /\ logged' = logged
     \/ /\ Fault                          \* the write raises part-way
        /\ session_log' = AppendTorn(session_log, <<entry>>, 0)
        /\ logged' = logged
     \/ /\ Fault                          \* fsync raises, the line is written
        /\ session_log' = AppendLines(session_log, <<entry>>, FALSE)
        /\ logged' = Append(logged, entry)
  /\ Goto(p, "init_ret")
  /\ UNCHANGED <<now, state_file, archive_log, tmp, lock_file, flocked, mem, loc, gh, Budget>>

\* A handler (or __init__) returns to the GTK main loop: its locals are gone.
HandlerReturns(p, label) ==
  /\ pc[p] = label
  /\ Goto(p, "idle")
  /\ loc' = [loc EXCEPT ![p] = NoLoc]
  /\ gh' = [gh EXCEPT ![p] = NoGhost]
  /\ io' = Io(p, {}, {})
  /\ UNCHANGED <<now, Files, lock_file, flocked, mem, Budget, faults, logged>>

init_ret(p) == HandlerReturns(p, "init_ret")

----------------------------------------------------------------------------
(* CalorieTray: the handlers of the user's actions *)

\* A handler starts: the values the properties compare against are remembered.
Dispatch(p, name) ==
  /\ pc[p] = "idle"
  /\ gh' = [gh EXCEPT ![p].handler = name,
                      ![p].calories_before = mem[p].calories,
                      ![p].session_start_before = mem[p].session_start,
                      ![p].saves = 0, ![p].save_after_append = "none"]

\* A handler whose first step touches no file.
Enter(p, name) == Dispatch(p, name) /\ io' = Io(p, {}, {})

\* A handler that may change the stores or the counter is counted in ops.
BeginHandler(p, name) ==
  /\ ops < MaxOps
  /\ ops' = ops + 1
  /\ Enter(p, name)

\* self.calories += self.left_click_amount; append_session_event(amount, calories, 'add')
on_left_click(p) ==
  /\ BeginHandler(p, "on_left_click")
  /\ LET calories == mem[p].calories + mem[p].left_click_amount IN
     /\ mem' = [mem EXCEPT ![p].calories = calories]
     /\ CallAppend(p, mem[p].left_click_amount, calories, "add", "olc_save")
  /\ UNCHANGED <<now, Files, lock_file, flocked, launchable, faults, logged>>

\* on_left_click: save_state(...); refresh_icon()
olc_save(p) ==
  /\ pc[p] = "olc_save"
  /\ mem' = mem
  /\ CallSave(p, "olc_ret")
  /\ io' = Io(p, {}, {})
  /\ UNCHANGED <<now, Files, lock_file, flocked, Budget, faults, logged>>

olc_ret(p) == HandlerReturns(p, "olc_ret")

\* calories = max(0, calories - amount); the event is appended only when
\* something was subtracted
on_right_click(p) ==
  /\ BeginHandler(p, "on_right_click")
  /\ LET before == mem[p].calories
         calories == Max(0, before - mem[p].right_click_amount)
         actual_subtract == before - calories
     IN
     /\ mem' = [mem EXCEPT ![p].calories = calories]
     /\ IF actual_subtract > 0
          THEN CallAppend(p, -actual_subtract, calories, "subtract", "orc_save")
          ELSE /\ loc' = [loc EXCEPT ![p].ase_ret = "none"]
               /\ Goto(p, "orc_save")
  /\ UNCHANGED <<now, Files, lock_file, flocked, launchable, faults, logged>>

\* on_right_click: save_state(...); refresh_icon()
orc_save(p) ==
  /\ pc[p] = "orc_save"
  /\ mem' = mem
  /\ CallSave(p, "orc_ret")
  /\ io' = Io(p, {}, {})
  /\ UNCHANGED <<now, Files, lock_file, flocked, Budget, faults, logged>>

orc_ret(p) == HandlerReturns(p, "orc_ret")

\* reset_time = now; if not append_session_event(0, 0, 'reset'): ... return
on_reset(p) ==
  /\ BeginHandler(p, "on_reset")
  /\ loc' = [loc EXCEPT ![p].reset_time = now, ![p].delta = 0, ![p].calories_after = 0,
                        ![p].action = "reset", ![p].ase_ret = "none"]
  /\ Call(p, "ase_write", "rst_check")
  /\ UNCHANGED <<now, Files, lock_file, flocked, mem, launchable, faults, logged>>

reset_proceeds_always(ret) == TRUE
reset_proceeds(ret) == ret = "True"

\* on_reset after the append: the error dialog, or the reset and its save
rst_check(p) ==
  /\ pc[p] = "rst_check"
  /\ io' = Io(p, {}, {})
  /\ IF reset_proceeds(loc[p].ase_ret)
       THEN /\ mem' = [mem EXCEPT ![p].calories = 0,
                                  ![p].session_start = loc[p].reset_time]
            /\ CallSave(p, "rst_ret")
       ELSE /\ Goto(p, "rst_ret")
            /\ UNCHANGED <<mem, loc, gh>>
  /\ UNCHANGED <<now, Files, lock_file, flocked, Budget, faults, logged>>

rst_ret(p) == HandlerReturns(p, "rst_ret")

\* f'{timestamp} | {sign_delta} kcal | total={after}'
FormatLine(l) ==
  [timestamp |-> l.timestamp,
   sign_delta |-> <<IF l.delta >= 0 THEN "+" ELSE "-",
                    IF l.delta >= 0 THEN l.delta ELSE -l.delta>>,
   total |-> l.calories_after]

\* read_formatted_jsonl_text: the lines that json.loads accepts, formatted
\* in file order; the empty message when there is no file or no such line.
read_formatted_jsonl_text(f, empty_message) ==
  LET Parsed(l) == l.kind = "entry"
      items == SelectSeq(ReadLines(f), Parsed)
  IN  IF ~f.exists \/ items = <<>>
        THEN Message(empty_message)
        ELSE Lines([i \in 1 .. Len(items) |-> FormatLine(items[i])])

\* A view handler starts: it changes no store, so it is not counted in ops.
ViewText(p, name, path, f, empty_message, failure_message, ret) ==
  /\ Dispatch(p, name)
  /\ \/ /\ NoFault
        /\ loc' = [loc EXCEPT ![p].view = read_formatted_jsonl_text(f, empty_message)]
     \/ /\ f.exists                        \* open or read raises OSError
        /\ Fault
        /\ loc' = [loc EXCEPT ![p].view = Message(failure_message)]
  /\ io' = Io(p, IF f.exists THEN {path} ELSE {}, {})
  /\ Goto(p, ret)
  /\ UNCHANGED <<now, Files, lock_file, flocked, mem, Budget, logged>>

\* on_view_log: text = read_log_text(); show_text_dialog(...)
on_view_log(p) ==
  ViewText(p, "on_view_log", "session_log", session_log,
           "No log events yet.", "Failed to read log.", "ovl_ret")

ovl_ret(p) == HandlerReturns(p, "ovl_ret")

\* on_view_archive: text = read_archive_text(); show_text_dialog(...)
on_view_archive(p) ==
  ViewText(p, "on_view_archive", "archive_log", archive_log,
           "No archived log events yet.", "Failed to read archive log.", "ova_ret")

ova_ret(p) == HandlerReturns(p, "ova_ret")

\* The answer to a confirmation or input dialog.
Responses == {"OK", "CANCEL"}

\* on_clear_log: the confirmation dialog; anything but OK returns.
on_clear_log(p) ==
  /\ \E response \in Responses :
       IF response = "OK"
         THEN BeginHandler(p, "on_clear_log") /\ Goto(p, "ocl_clear")
         ELSE Enter(p, "on_clear_log") /\ Goto(p, "ocl_ret") /\ ops' = ops
  /\ UNCHANGED <<now, Files, lock_file, flocked, mem, loc, launchable, faults, logged>>

\* The text clear_log and clear_archive_log write: ''.
EmptyText_with_a_line == TextFile(<<Entry(0, 0, 0, "init")>>)
EmptyText == TextFile(<<>>)

\* clear_log: mkdir; atomic_write_text(session_log_path, '')
ocl_clear(p) ==
  /\ pc[p] = "ocl_clear"
  /\ BeginWrite(p, "session_log", EmptyText, NoState)
  /\ gh' = [gh EXCEPT ![p].aw_old_text = session_log]
  /\ Call(p, "aw_stage", "ocl_check")
  /\ io' = Io(p, {}, {})
  /\ UNCHANGED <<now, Files, lock_file, flocked, mem, Budget, faults, logged>>

\* if self.storage.clear_log(): self.session_start = now; save_state(...)
ocl_check(p) ==
  /\ pc[p] = "ocl_check"
  /\ io' = Io(p, {}, {})
  /\ IF loc[p].aw_error = "none"
       THEN /\ mem' = [mem EXCEPT ![p].session_start = now]
            /\ CallSave(p, "ocl_ret")
       ELSE /\ Goto(p, "ocl_ret")
            /\ UNCHANGED <<mem, loc, gh>>
  /\ UNCHANGED <<now, Files, lock_file, flocked, Budget, faults, logged>>

ocl_ret(p) == HandlerReturns(p, "ocl_ret")

\* on_clear_archive: the confirmation dialog; anything but OK returns.
on_clear_archive(p) ==
  /\ \E response \in Responses :
       IF response = "OK"
         THEN BeginHandler(p, "on_clear_archive") /\ Goto(p, "oca_clear")
         ELSE Enter(p, "on_clear_archive") /\ Goto(p, "oca_ret") /\ ops' = ops
  /\ UNCHANGED <<now, Files, lock_file, flocked, mem, loc, launchable, faults, logged>>

\* clear_archive_log: mkdir; atomic_write_text(archive_log_path, '')
oca_clear(p) ==
  /\ pc[p] = "oca_clear"
  /\ BeginWrite(p, "archive_log", EmptyText, NoState)
  /\ gh' = [gh EXCEPT ![p].aw_old_text = archive_log]
  /\ Call(p, "aw_stage", "oca_ret")
  /\ io' = Io(p, {}, {})
  /\ UNCHANGED <<now, Files, lock_file, flocked, mem, Budget, faults, logged>>

oca_ret(p) == HandlerReturns(p, "oca_ret")

\* The two SpinButtons: new_with_range(0, 5000, 1); <<left, right>> taken
\* from the ends of the range.
AdjustChoices == {<<SPIN_MIN, SPIN_MAX>>, <<SPIN_MAX, SPIN_MIN>>}

\* on_adjust_click_amounts: on OK both amounts are taken from the dialog.
on_adjust_click_amounts(p) ==
  /\ \E response \in Responses :
       IF response = "OK"
         THEN /\ BeginHandler(p, "on_adjust_click_amounts")
              /\ \E input \in AdjustChoices :
                   mem' = [mem EXCEPT ![p].left_click_amount = input[1],
                                      ![p].right_click_amount = input[2]]
              /\ Goto(p, "oac_save")
         ELSE /\ Enter(p, "on_adjust_click_amounts")
              /\ ops' = ops
              /\ mem' = mem
              /\ Goto(p, "oac_ret")
  /\ UNCHANGED <<now, Files, lock_file, flocked, loc, launchable, faults, logged>>

\* on_adjust_click_amounts: save_state(...); refresh_icon()
oac_save(p) ==
  /\ pc[p] = "oac_save"
  /\ mem' = mem
  /\ CallSave(p, "oac_ret")
  /\ io' = Io(p, {}, {})
  /\ UNCHANGED <<now, Files, lock_file, flocked, Budget, faults, logged>>

oac_ret(p) == HandlerReturns(p, "oac_ret")

----------------------------------------------------------------------------
(* weekly.build_last_week_summary / CalorieTray.on_view_last_week *)

\* timestamp.date(), as the number of the local calendar day.
date(t) == t \div Day

\* iter_recent_session_events: the parsed lines with timestamp >= window_start.
iter_recent_session_events(f, window_start) ==
  LET Recent(l) == /\ l.kind = "entry"
                   /\ parse_iso_datetime(l.timestamp) # None
                   /\ parse_iso_datetime(l.timestamp) >= window_start
  IN  SelectSeq(ReadLines(f), Recent)

\* if action not in ('add', 'subtract', 'reset', 'init'): continue
Qualifies_any_action(action) == TRUE
Qualifies(action) == action \in {"add", "subtract", "reset", "init"}

\* The first loop: totals_net, day_has_data and first_session_event_ts after
\* the items have been gone through in file order.
RECURSIVE Accumulate(_, _)
Accumulate(items, acc) ==
  IF items = <<>> THEN acc
  ELSE LET item == Head(items)
           timestamp == parse_iso_datetime(item.timestamp)
           day_key == date(timestamp)
       IN  IF ~Qualifies(item.action) \/ day_key \notin DOMAIN acc.totals_net
             THEN Accumulate(Tail(items), acc)
             ELSE Accumulate(Tail(items),
                    [totals_net |-> [acc.totals_net EXCEPT ![day_key] = @ + item.delta],
                     day_has_data |-> [acc.day_has_data EXCEPT ![day_key] = TRUE],
                     first_session_event_ts |->
                       IF acc.first_session_event_ts = None
                            \/ timestamp < acc.first_session_event_ts
                         THEN timestamp ELSE acc.first_session_event_ts])

\* The days the second loop does not skip: if day < tracked_start_day:
\* continue; if not any_tracking: continue.
Skipped_unless_data(acc, tracked_start_day, day) == ~acc.day_has_data[day]
Skipped(acc, tracked_start_day, day) ==
  day < tracked_start_day \/ acc.first_session_event_ts = None

\* f'{x:+.1f}': the sign and the tenths of x = total / days, rounded to the
\* nearest tenth, a tie to the even one.
FormatAverage(total_net, days_count) ==
  LET magnitude == IF total_net < 0 THEN -total_net ELSE total_net
      q == (magnitude * 10) \div days_count
      r == (magnitude * 10) % days_count
  IN  [negative |-> total_net < 0,
       tenths |-> IF 2 * r < days_count THEN q
                  ELSE IF 2 * r > days_count THEN q + 1
                  ELSE IF q % 2 = 0 THEN q ELSE q + 1]

\* if day_has_data.get(day_key, False): lines.append(net ...);
\* daily_bars.append(...) else: lines.append(no data)
Charted_every_day(acc, day) == TRUE
Charted(acc, day) == acc.day_has_data[day]

RECURSIVE SumNet(_, _)
SumNet(totals_net, days) ==
  IF days = <<>> THEN 0 ELSE totals_net[Head(days)] + SumNet(totals_net, Tail(days))

build_last_week_summary(f, t) ==
  LET today == date(t)
      start_day == today - 6
      window_start == start_day * Day
      window == [offset \in 1..7 |-> start_day + offset - 1]
      acc == Accumulate(iter_recent_session_events(f, window_start),
                        [totals_net |-> [day \in start_day..today |-> 0],
                         day_has_data |-> [day \in start_day..today |-> FALSE],
                         first_session_event_ts |-> None])
      tracked_start == IF acc.first_session_event_ts # None
                         THEN acc.first_session_event_ts ELSE window_start
      Included(day) == ~Skipped(acc, date(tracked_start), day)
      included == SelectSeq(window, Included)
      HasData(day) == Charted(acc, day)
      bars == SelectSeq(included, HasData)
      total_net == SumNet(acc.totals_net, included)
      days_count == Len(included)
  IN  [shape |-> "dict", message |-> "",
       totals_net |-> acc.totals_net, day_has_data |-> acc.day_has_data,
       lines |-> [k \in 1..Len(included) |->
                   [day |-> included[k], has_data |-> acc.day_has_data[included[k]],
                    net |-> acc.totals_net[included[k]]]],
       daily_bars |-> [k \in 1..Len(bars) |->
                        [day_key |-> bars[k], net |-> acc.totals_net[bars[k]]]],
       days_count |-> days_count, total_net |-> total_net,
       trailer |-> IF days_count = 0 THEN "No tracked data in the last 7 days."
                   ELSE "Tracked-period net and average",
       average |-> IF days_count = 0 THEN NoSummary.average
                   ELSE FormatAverage(total_net, days_count)]

\* except OSError: return 'Failed to read weekly summary.'
FailedSummary == [NoSummary EXCEPT !.shape = "str", !.message = "Failed to read weekly summary."]

\* on_view_last_week: a str goes to the text dialog, anything else to the
\* dialog with the bars.
on_view_last_week(p) ==
  /\ Dispatch(p, "on_view_last_week")
  /\ \E summary \in {build_last_week_summary(session_log, now), FailedSummary} :
       /\ IF summary = FailedSummary THEN session_log.exists /\ Fault ELSE NoFault
       /\ loc' = [loc EXCEPT ![p].summary = summary,
                             ![p].dialog = IF summary.shape = "str"
                                             THEN "show_text_dialog"
                                             ELSE "show_last_week_dialog"]
  /\ io' = Io(p, IF session_log.exists THEN {"session_log"} ELSE {}, {})
  /\ Goto(p, "ovw_ret")
  /\ UNCHANGED <<now, Files, lock_file, flocked, mem, Budget, logged>>

ovw_ret(p) == HandlerReturns(p, "ovw_ret")

\* on_quit: release_instance_lock(); Gtk.main_quit()
on_quit(p) ==
  /\ pc[p] = "idle"
  /\ ops < MaxOps
  /\ ops' = ops + 1
  /\ flocked' = IF mem[p].lock_fd THEN flocked \ {p} ELSE flocked
  /\ pc' = [pc EXCEPT ![p] = "off"]
  /\ stack' = [stack EXCEPT ![p] = <<>>]
  /\ mem' = [mem EXCEPT ![p] = NoMem]
  /\ loc' = [loc EXCEPT ![p] = NoLoc]
  /\ gh' = [gh EXCEPT ![p] = NoGhost]
  /\ io' = Io(p, {}, {})
  /\ UNCHANGED <<now, Files, lock_file, launchable, faults, logged>>

----------------------------------------------------------------------------

Step(p) ==
  \/ Launch(p) \/ Crash(p)
  \/ acq_open(p) \/ acq_flock(p) \/ acq_write(p) \/ init_lock_check(p)
  \/ init_load(p) \/ init_prune(p) \/ init_ensure(p) \/ eil_write(p) \/ init_ret(p)
  \/ aw_stage(p) \/ aw_replace(p) \/ aw_cleanup(p) \/ aw_ret(p)
  \/ psl_read(p) \/ psl_archive(p) \/ psl_rewrite(p) \/ psl_after_rewrite(p) \/ psl_ret(p)
  \/ pal_read(p)
  \/ ase_write(p) \/ ase_ret(p)
  \/ on_left_click(p) \/ olc_save(p) \/ olc_ret(p)
  \/ on_right_click(p) \/ orc_save(p) \/ orc_ret(p)
  \/ on_reset(p) \/ rst_check(p) \/ rst_ret(p)
  \/ on_quit(p)

Next == (\E d \in AdvanceSteps : Tick(d)) \/ (\E p \in Procs : Step(p))

Spec == Init /\ [][Next]_vars

\* One instance that is never killed, with the whole menu: clearing the logs,
\* adjusting the amounts and the views besides the clicks and the reset.
\* I/O calls may still raise OSError.
StepMenu(p) ==
  \/ Launch(p)
  \/ acq_open(p) \/ acq_flock(p) \/ acq_write(p) \/ init_lock_check(p)
  \/ init_load(p) \/ init_prune(p) \/ init_ensure(p) \/ eil_write(p) \/ init_ret(p)
  \/ aw_stage(p) \/ aw_replace(p) \/ aw_cleanup(p) \/ aw_ret(p)
  \/ psl_read(p) \/ psl_archive(p) \/ psl_rewrite(p) \/ psl_after_rewrite(p) \/ psl_ret(p)
  \/ pal_read(p)
  \/ ase_write(p) \/ ase_ret(p)
  \/ on_left_click(p) \/ olc_save(p) \/ olc_ret(p)
  \/ on_right_click(p) \/ orc_save(p) \/ orc_ret(p)
  \/ on_reset(p) \/ rst_check(p) \/ rst_ret(p)
  \/ on_clear_log(p) \/ ocl_clear(p) \/ ocl_check(p) \/ ocl_ret(p)
  \/ on_clear_archive(p) \/ oca_clear(p) \/ oca_ret(p)
  \/ on_adjust_click_amounts(p) \/ oac_save(p) \/ oac_ret(p)
  \/ on_view_log(p) \/ ovl_ret(p)
  \/ on_view_archive(p) \/ ova_ret(p)
  \/ on_quit(p)

\* The clock advances by a tick or by the retention of the active log.
MenuAdvanceSteps == {1, ActiveRetentionDays * Day}

NextMenu == (\E d \in MenuAdvanceSteps : Tick(d)) \/ (\E p \in Procs : StepMenu(p))

SpecMenu == Init /\ [][NextMenu]_vars

\* The active logs the weekly view is started on: up to MaxLogLen lines, in
\* the order of their timestamps, of a log written over days 2 to 10 (one of
\* them by another program version, one cut short), read on day 10 or 11.
MaxLogLen == 3

At(day, seconds) == day * (Day \div TicksPerSecond) + seconds

WrittenLines ==
  <<Entry(At(2, 43200), 50, 50, "add"),
    Entry(At(3, 64800), 70, 120, "add"),
    Entry(At(9, 28800), 0, 0, "init"),
    Entry(At(9, 32400), 50, 50, "add"),
    Entry(At(9, 36000), 30, 80, "note"),
    Entry(At(10, 36000), -10, 40, "subtract"),
    Entry(At(10, 39600), 0, 0, "reset"),
    Junk>>

Chosen(S) ==
  LET Picked(i) == i \in S
      indices == SelectSeq([i \in 1..Len(WrittenLines) |-> i], Picked)
  IN  [k \in 1..Len(indices) |-> WrittenLines[indices[k]]]

WeeklyLogs ==
  {NoFile} \cup {TextFile(Chosen(S)) :
                   S \in {T \in SUBSET (1..Len(WrittenLines)) : Cardinality(T) <= MaxLogLen}}

WeeklyNows == {10 * Day + Day \div 2, 11 * Day + Day \div 2}

InitWeekly ==
  /\ now \in WeeklyNows
  /\ state_file = NoState
  /\ session_log \in WeeklyLogs
  /\ archive_log = NoFile
  /\ tmp = [f \in Paths |-> "absent"]
  /\ lock_file = [exists |-> FALSE, pid |-> 0]
  /\ flocked = {}
  /\ pc = [p \in Procs |-> "off"]
  /\ stack = [p \in Procs |-> <<>>]
  /\ mem = [p \in Procs |-> NoMem]
  /\ loc = [p \in Procs |-> NoLoc]
  /\ gh = [p \in Procs |-> NoGhost]
  /\ io = NoIo
  /\ logged = Events(session_log)
  /\ ops = 0
  /\ faults = 0
  /\ launchable = {1}

\* One instance is started on such a log and shows the weekly summary.
StepWeekly(p) ==
  \/ Launch(p)
  \/ acq_open(p) \/ acq_flock(p) \/ acq_write(p) \/ init_lock_check(p)
  \/ init_load(p) \/ init_prune(p) \/ init_ensure(p) \/ eil_write(p) \/ init_ret(p)
  \/ aw_stage(p) \/ aw_replace(p) \/ aw_cleanup(p) \/ aw_ret(p)
  \/ psl_read(p) \/ psl_archive(p) \/ psl_rewrite(p) \/ psl_after_rewrite(p) \/ psl_ret(p)
  \/ pal_read(p)
  \/ on_view_last_week(p) \/ ovw_ret(p)
  \/ on_quit(p)

NextWeekly == \E p \in Procs : StepWeekly(p)

SpecWeekly == InitWeekly /\ [][NextWeekly]_vars

\* Two CalorieStorage objects on one store directory whose holders call
\* acquire_instance_lock and release_instance_lock in any order.
InitRelease ==
  /\ now = 0
  /\ state_file = NoState
  /\ session_log = NoFile
  /\ archive_log = NoFile
  /\ tmp = [f \in Paths |-> "absent"]
  /\ lock_file = [exists |-> FALSE, pid |-> 0]
  /\ flocked = {}
  /\ pc = [p \in Procs |-> "client"]
  /\ stack = [p \in Procs |-> <<>>]
  /\ mem = [p \in Procs |-> NoMem]
  /\ loc = [p \in Procs |-> NoLoc]
  /\ gh = [p \in Procs |-> NoGhost]
  /\ io = NoIo
  /\ logged = <<>>
  /\ ops = 0
  /\ faults = 0
  /\ launchable = {}

StepRelease(p) ==
  \/ client_acquire(p)
  \/ acq_open(p) \/ acq_flock(p) \/ acq_flock_blocked(p) \/ acq_write(p)
  \/ release_instance_lock(p) \/ rel_unlock(p) \/ rel_close(p) \/ rel_ret(p)

NextRelease == \E p \in Procs : StepRelease(p)

SpecRelease == InitRelease /\ [][NextRelease]_vars

\* The lines session_log.jsonl is started with when something else than this
\* program version wrote to it: an event older than the active window, an
\* event inside it, an object without a timestamp, text that is not JSON, and
\* a JSON document that is not an object.
PruneNow == 10 * Day
PruneLines ==
  <<Entry(At(2, 43200), 50, 50, "add"),
    Entry(At(9, 28800), 70, 120, "add"),
    Entry(None, 30, 150, "add"),
    Junk,
    Value>>

PruneLogs ==
  {TextFile(ls) : ls \in UNION {[1 .. n -> {PruneLines[i] : i \in DOMAIN PruneLines}] : n \in 0 .. MaxLogLen}}

InitPrune ==
  /\ now = PruneNow
  /\ state_file = NoState
  /\ session_log \in PruneLogs
  /\ archive_log = NoFile
  /\ tmp = [f \in Paths |-> "absent"]
  /\ lock_file = [exists |-> FALSE, pid |-> 0]
  /\ flocked = {}
  /\ pc = [p \in Procs |-> "off"]
  /\ stack = [p \in Procs |-> <<>>]
  /\ mem = [p \in Procs |-> NoMem]
  /\ loc = [p \in Procs |-> NoLoc]
  /\ gh = [p \in Procs |-> NoGhost]
  /\ io = NoIo
  /\ logged = Events(session_log)
  /\ ops = 0
  /\ faults = 0
  /\ launchable = {1}

\* The startup of one instance over such a log, its exit and its restart.
StepPrune(p) ==
  \/ Launch(p)
  \/ acq_open(p) \/ acq_flock(p) \/ acq_write(p) \/ init_lock_check(p)
  \/ init_load(p) \/ init_prune(p) \/ init_ensure(p) \/ eil_write(p) \/ init_ret(p)
  \/ aw_stage(p) \/ aw_replace(p) \/ aw_cleanup(p) \/ aw_ret(p)
  \/ psl_read(p) \/ psl_archive(p) \/ psl_rewrite(p) \/ psl_after_rewrite(p) \/ psl_ret(p)
  \/ psl_raised(p)
  \/ pal_read(p)
  \/ on_quit(p)

NextPrune == \E p \in Procs : StepPrune(p)

SpecPrune == InitPrune /\ [][NextPrune]_vars

\* The startup of one instance, its exit and its restart.
StepLoad(p) ==
  \/ Launch(p)
  \/ acq_open(p) \/ acq_flock(p) \/ acq_write(p) \/ init_lock_check(p)
  \/ init_load(p) \/ init_raised(p)
  \/ init_prune(p) \/ init_ensure(p) \/ eil_write(p) \/ init_ret(p)
  \/ aw_stage(p) \/ aw_replace(p) \/ aw_cleanup(p) \/ aw_ret(p)
  \/ psl_read(p) \/ psl_ret(p)
  \/ pal_read(p)
  \/ on_quit(p)

NextLoad == Tick(1) \/ (\E p \in Procs : StepLoad(p))

SpecLoad == InitLoad /\ [][NextLoad]_vars

\* Two instances, with the clock standing still: nothing grows old, so
\* psl_archive is never reached and is left out.
StepLock(p) ==
  \/ Launch(p) \/ Crash(p)
  \/ acq_open(p) \/ acq_flock(p) \/ acq_flock_blocked(p) \/ acq_write(p)
  \/ init_lock_check(p)
  \/ init_load(p) \/ init_prune(p) \/ init_ensure(p) \/ eil_write(p) \/ init_ret(p)
  \/ aw_stage(p) \/ aw_replace(p) \/ aw_cleanup(p) \/ aw_ret(p)
  \/ psl_read(p) \/ psl_rewrite(p) \/ psl_after_rewrite(p) \/ psl_ret(p)
  \/ pal_read(p)
  \/ ase_write(p) \/ ase_ret(p)
  \/ on_left_click(p) \/ olc_save(p) \/ olc_ret(p)
  \/ on_right_click(p) \/ orc_save(p) \/ orc_ret(p)
  \/ on_reset(p) \/ rst_check(p) \/ rst_ret(p)
  \/ on_quit(p)

NextLock == \E p \in Procs : StepLock(p)

SpecLock == InitLock /\ [][NextLock]_vars

\* ---------------------------------------------------------------------------
\* Properties of pruning (storage.py, prune_session_log)
\* ---------------------------------------------------------------------------

Range(seq) == {seq[i] : i \in DOMAIN seq}
Count(seq, e) == Cardinality({i \in DOMAIN seq : seq[i] = e})

RECURSIVE SumNew(_, _, _)
SumNew(S, after, before) ==
  IF S = {} THEN 0
  ELSE LET e == CHOOSE x \in S : TRUE IN
       Max(0, Count(after, e) - Count(before, e)) + SumNew(S \ {e}, after, before)

\* Number of entries present in `after` beyond their occurrences in `before`.
NewlyPresent(after, before) == SumNew(Range(after), after, before)

\* A call of prune_session_log by p has read the log and has not returned.
PruneReturns(p) == pc[p] = "psl_ret"

WithinHorizon(e) == parse_iso_datetime(e.timestamp) >= now - ARCHIVE_RETENTION_DAYS * Day

\* C1: at every step of prune_session_log, a kill allowed at any step, every
\* parseable entry that was in the active log when the prune started and is
\* within the archive retention horizon is in the active log or in the archive.
C1_NoEntryLost ==
  \A p \in Procs :
    \A e \in Range(Events(gh[p].log_before)) :
      WithinHorizon(e) => e \in Range(Events(session_log)) \cup Range(Events(archive_log))

OldEntries(f, cutoff) ==
  {e \in Range(Events(f)) : parse_iso_datetime(e.timestamp) < cutoff}

\* C2 as stated: after any call of prune_session_log returns, whatever I/O
\* outcomes it met, the active log holds no entry older than now - 7 days.
C2_AfterAnyPrune ==
  \A p \in Procs :
    PruneReturns(p) => OldEntries(session_log, now - ActiveRetentionDays * Day) = {}

\* C2, amended: after a call of prune_session_log that rewrote the active log
\* (read, archive append and atomic rewrite without I/O failure) returns, the
\* active log holds no entry older than the cutoff now - 7 days of that call;
\* a call cut short by an I/O failure leaves the old entries in place.
C2_AfterCompletedPrune ==
  \A p \in Procs :
    /\ PruneReturns(p) /\ loc[p].psl_result = "rewritten"
      => /\ loc[p].cutoff = now - ActiveRetentionDays * Day
         /\ OldEntries(session_log, loc[p].cutoff) = {}
    /\ PruneReturns(p)
         /\ loc[p].psl_result \in {"read_failed", "archive_failed", "rewrite_failed"}
      => session_log = gh[p].log_before

C2_Evicted ==
  \E p \in Procs :
    /\ PruneReturns(p) /\ loc[p].psl_result = "rewritten"
    /\ OldEntries(gh[p].log_before, loc[p].cutoff) # {}
    /\ Events(session_log) # <<>>

\* C3 as stated: for every prune of the active log, entries before = entries
\* after + entries newly present in the archive log.
C3_CountPreserved ==
  \A p \in Procs :
    PruneReturns(p) =>
      Len(Events(gh[p].log_before)) =
        Len(Events(session_log))
          + NewlyPresent(Events(archive_log), Events(gh[p].archive_before))

\* C3, amended: for every prune that rewrote the active log, entries before =
\* entries after + entries evicted (handed to the archive append); the entries
\* newly present in the archive are at most the evicted ones, the archive
\* prune of the same call discarding those older than the archive retention.
C3_EvictedAccounted ==
  \A p \in Procs :
    PruneReturns(p) /\ loc[p].psl_result = "rewritten" =>
      /\ Len(Events(gh[p].log_before)) =
           Len(Events(session_log)) + Len(loc[p].archived_lines)
      /\ NewlyPresent(Events(archive_log), Events(gh[p].archive_before))
           <= Len(loc[p].archived_lines)

C3_EvictedAndDiscarded ==
  \E p \in Procs :
    /\ PruneReturns(p) /\ loc[p].psl_result = "rewritten"
    /\ loc[p].pal_read = "ok" /\ loc[p].aw_error = "none"
    /\ loc[p].archived_lines # <<>>
    /\ NewlyPresent(Events(archive_log), Events(gh[p].archive_before))
         < Len(loc[p].archived_lines)

\* C4: when the archive append fails during prune_session_log, the prune
\* returns at once and the active log file is exactly as it was before the
\* prune: no entry removed, no rewrite.
C4_FailedArchiveLeavesLog ==
  \A p \in Procs :
    loc[p].archive_ret = "False" =>
      /\ PruneReturns(p)
      /\ session_log = gh[p].log_before

C4_ArchiveAppendFailed ==
  \E p \in Procs :
    /\ PruneReturns(p) /\ loc[p].archive_ret = "False"
    /\ loc[p].archived_lines # <<>>
    /\ archive_log # gh[p].archive_before

\* ---------------------------------------------------------------------------
\* Properties of the atomic writer (storage.py, atomic_write_text / _json)
\* ---------------------------------------------------------------------------

InWriter(p) == pc[p] \in {"aw_stage", "aw_replace", "aw_cleanup", "aw_ret"}

\* The destination as it was when the write in progress was called.
OldContents(p) ==
  IF loc[p].aw_path = "state" THEN <<gh[p].aw_old_json>> ELSE <<gh[p].aw_old_text>>

OldOrNew(p) == Dest(loc[p].aw_path) \in {OldContents(p), Payload(p)}

\* C5 as stated: at every step of an atomic write the destination holds the
\* complete old or the complete new contents, and after a failed staging the
\* temporary file is removed.
C5_OldOrNewAndTmpRemoved ==
  \A p \in Procs :
    InWriter(p) =>
      /\ OldOrNew(p)
      /\ pc[p] = "aw_ret" /\ ~loc[p].aw_staged => tmp[loc[p].aw_path] = "absent"

\* C5, amended: at every step of an atomic write the destination holds the
\* complete old or the complete new contents, the new ones only after a
\* complete staging and always when the writer returns without error; after
\* a staging that failed in open, write, flush or fsync the temporary file is
\* removed unless unlink raises as well, which is only logged.
C5_OldOrNewAndTmpCleanup ==
  \A p \in Procs :
    InWriter(p) =>
      /\ OldOrNew(p)
      /\ Dest(loc[p].aw_path) # OldContents(p) => loc[p].aw_staged
      /\ pc[p] = "aw_ret" /\ loc[p].aw_error = "none" =>
           Dest(loc[p].aw_path) = Payload(p) /\ tmp[loc[p].aw_path] = "absent"
      /\ pc[p] = "aw_ret" /\ loc[p].aw_error \in {"open", "write"}
           /\ ~loc[p].aw_unlink_failed => tmp[loc[p].aw_path] = "absent"

C5_FailedStagingCleaned ==
  \E p \in Procs :
    /\ pc[p] = "aw_ret" /\ loc[p].aw_error = "write"
    /\ tmp[loc[p].aw_path] = "absent"
    /\ Payload(p) # OldContents(p)
    /\ Dest(loc[p].aw_path) = OldContents(p)

\* ---------------------------------------------------------------------------
\* Properties of the mutating actions (calorie_widget.py)
\* ---------------------------------------------------------------------------

ResetReturns(p) == pc[p] = "rst_ret"

ResetFailureBranch(p) ==
  loc[p].ase_ret = "False" =>
    /\ mem[p].calories = gh[p].calories_before
    /\ mem[p].session_start = gh[p].session_start_before
    /\ gh[p].saves = 0

ResetInMemory(p) ==
  /\ mem[p].calories = 0
  /\ mem[p].session_start = loc[p].reset_time
  /\ gh[p].saves = 1

ActionReturns(p) == pc[p] \in {"olc_ret", "orc_ret", "rst_ret"}

\* C7: for add, subtract and reset, when the log append of the action fails
\* the in-memory counter after the action equals the counter before it.
C7_CounterUnchangedOnFailedAppend ==
  \A p \in Procs :
    ActionReturns(p) /\ loc[p].ase_ret = "False" =>
      mem[p].calories = gh[p].calories_before

\* C8: in add, subtract and reset, when the save of the action is issued the
\* log append of its event has returned success and the entry is on disk.
C8_AppendDurableBeforeSave ==
  \A p \in Procs :
    /\ gh[p].handler \in {"on_left_click", "on_right_click", "on_reset"}
    /\ gh[p].saves > 0
    /\ gh[p].save_after_append # "none"
    => gh[p].save_after_append = "True" /\ gh[p].save_log_synced

\* ---------------------------------------------------------------------------
\* Properties of the instance lock, for two instances on one store directory
\* ---------------------------------------------------------------------------

Others(p) == flocked \ {p}

AcquireReturned(p) == pc[p] = "init_lock_check"

\* C9: at most one process holds the instance lock at a time;
\* acquire_instance_lock returns True only to a process that then is the
\* only holder, and while another process holds the lock it does not wait:
\* its flock call can complete at once, and the call returns False.
C9_MutualExclusion ==
  /\ Cardinality(flocked) <= 1
  /\ \A p \in Procs :
       /\ mem[p].lock_fd => flocked = {p}
       /\ AcquireReturned(p) =>
            /\ loc[p].acq_ret \in {"True", "False"}
            /\ loc[p].acq_ret = "True" => flocked = {p} /\ mem[p].lock_fd
            /\ Others(p) # {} => loc[p].acq_ret = "False"
       /\ pc[p] = "acq_flock" /\ Others(p) # {} => ENABLED acq_flock_blocked(p)

C9_SecondInstanceRefused ==
  \E p, q \in Procs :
    /\ p # q /\ faults = 0
    /\ mem[p].lock_fd /\ flocked = {p}
    /\ AcquireReturned(q) /\ loc[q].acq_ret = "False"

\* Positions of a process that has not passed the check of the lock.
BeforeLockCheck == {"off", "acq_open", "acq_flock", "acq_write", "init_lock_check"}

\* C10: every read and write of state.json, session_log.jsonl and
\* log_archive.jsonl is made by a process holding the instance lock, and a
\* process gets past the startup check of the lock only while holding it, so
\* one whose acquire failed has touched no store when it exits.
C10_StoresTouchedUnderLock ==
  /\ io.reads \cup io.writes # {} => io.p \in flocked /\ mem[io.p].lock_fd
  /\ \A p \in Procs :
       /\ pc[p] \notin BeforeLockCheck => p \in flocked /\ mem[p].lock_fd
       /\ pc[p] \in BeforeLockCheck => io.p # p \/ io.reads \cup io.writes = {}

C10_HolderWritesWhileOtherRefused ==
  \E p, q \in Procs :
    /\ p # q
    /\ io.p = p /\ io.writes # {}
    /\ AcquireReturned(q) /\ loc[q].acq_ret = "False"

\* ---------------------------------------------------------------------------
\* Properties of the whole menu, for an instance that is never killed
\* ---------------------------------------------------------------------------

\* p has finished its startup and is idle or inside a handler.
Started(p) == pc[p] # "off" /\ gh[p].handler # "init"

\* C11 as stated: in every state after startup, whatever the user did, the
\* active log contains at least one entry with a parseable timestamp.
C11_LogNeverEmpty ==
  \A p \in Procs : Started(p) => Events(session_log) # <<>>

ClearLogReplaces(p) ==
  /\ pc[p] = "aw_replace" /\ loc[p].aw_path = "session_log"
  /\ gh[p].handler = "on_clear_log"

\* C11, amended: as long as no I/O call has failed, a startup ends with at
\* least one entry with a parseable timestamp in the active log, and
\* afterwards the only step that leaves the log without any is the replace of
\* clear_log, which leaves an empty file; nothing seeds the log again before
\* the next add, subtract or reset is logged.
C11_EmptiedOnlyByClear ==
  [][ /\ \A p \in Procs :
           pc[p] = "init_ret" /\ faults = 0 => Events(session_log) # <<>>
      /\ (\E p \in Procs : Started(p))
           /\ Events(session_log) # <<>> /\ Events(session_log') = <<>>
           /\ faults' = 0
         => \E p \in Procs : ClearLogReplaces(p) /\ session_log' = TextFile(<<>>)
    ]_vars

C11_IdleWithClearedLog ==
  \E p \in Procs :
    /\ pc[p] = "idle" /\ faults = 0
    /\ session_log = TextFile(<<>>)
    /\ mem[p].calories > 0

\* A prune at the given cutoff would keep every line of f and archive none.
PrunedAt(f, cutoff) ==
  /\ KeptLines(f, cutoff) = ReadLines(f)
  /\ ArchivedLines(f, cutoff) = <<>>

\* C12: pruning is idempotent.  The active log left by a prune that rewrote
\* it is one that a second prune at the same clock value keeps line for line
\* and archives nothing from; and a prune that finds such a log (no append
\* since the previous prune) leaves the same content and archives nothing.
C12_PruneIdempotent ==
  \A p \in Procs :
    PruneReturns(p) /\ loc[p].psl_result = "rewritten" =>
      /\ ~session_log.torn
      /\ PrunedAt(session_log, loc[p].cutoff)
      /\ PrunedAt(gh[p].log_before, loc[p].cutoff) =>
           /\ session_log.lines = ReadLines(gh[p].log_before)
           /\ loc[p].archived_lines = <<>>
           /\ loc[p].archive_ret = "none"

C12_SecondPruneSameLog ==
  \E p \in Procs :
    /\ PruneReturns(p) /\ loc[p].psl_result = "rewritten"
    /\ gh[p].handler = "init"
    /\ Events(archive_log) # <<>>
    /\ session_log.lines # <<>>
    /\ session_log.lines = gh[p].log_before.lines

\* The text that shows exactly the given entries, in their order.
TextOf(entries, empty_message) ==
  IF entries = <<>> THEN Message(empty_message)
  ELSE Lines([i \in 1 .. Len(entries) |-> FormatLine(entries[i])])

\* C13: when no process was killed, read_log_text renders exactly the
\* entries appended, in append order, minus those that pruning evicted.
C13_ViewShowsLoggedEntries ==
  \A p \in Procs :
    pc[p] = "ovl_ret" /\ loc[p].view # Message("Failed to read log.") =>
      loc[p].view = TextOf(logged, "No log events yet.")

\* The state an instance is in right after load_state returned or raised.
Loaded(p) ==
  /\ gh[p].handler = "init"
  /\ \/ pc[p] = "init_raised"
     \/ pc[p] = "init_prune" /\ gh[p].saves = 0
     \/ pc[p] = "aw_stage" /\ loc[p].aw_path = "state" /\ ~loc[p].aw_staged

\* The startup save of the loaded snapshot has returned.
StartupSaveReturned(p) ==
  gh[p].handler = "init" /\ pc[p] = "init_prune" /\ gh[p].saves = 1

MissingOrEmpty(f) == ~f.exists \/ ~f.valid

\* C14: load_state on a missing or empty state file returns the defaults
\* with needs_resave = true, and save_state of that snapshot followed by
\* load_state returns exactly the same counter, step_up, step_down and
\* session_start with needs_resave = false.
C14_DefaultsRoundTrip ==
  \A p \in Procs :
    /\ Loaded(p) /\ MissingOrEmpty(gh[p].loaded) =>
         /\ pc[p] = "aw_stage"
         /\ mem[p].calories = 0
         /\ mem[p].left_click_amount = DEFAULT_LEFT_CLICK_AMOUNT
         /\ mem[p].right_click_amount = DEFAULT_RIGHT_CLICK_AMOUNT
         /\ mem[p].session_start = now
    /\ StartupSaveReturned(p) /\ MissingOrEmpty(gh[p].loaded) /\ loc[p].aw_error = "none" =>
         LET r == load_state(state_file, now) IN
         /\ r.raised = "none" /\ ~r.needs_persist
         /\ r.calories = mem[p].calories
         /\ r.left_click_amount = mem[p].left_click_amount
         /\ r.right_click_amount = mem[p].right_click_amount
         /\ r.session_start = mem[p].session_start

\* The value the field-by-field policy gives a numeric key: the stored value
\* when the file has a non-negative integer there, the default otherwise.
StoredOrDefault(f, key, default) ==
  IF f.exists /\ f.valid /\ f.object /\ f.kinds[key] = "int" /\ f[key] >= 0
    THEN f[key] ELSE default

StoredInstantOrNow(f) ==
  IF f.exists /\ f.valid /\ f.object /\ parse_iso_datetime(f.session_start) # None
    THEN parse_iso_datetime(f.session_start) ELSE now

\* C15: for every content of state.json load_state returns a snapshot without
\* raising, in which each field that is valid in the file keeps its stored
\* value and only the missing or invalid fields take their defaults (counter
\* 0, the configured step defaults, session_start = now).
C15_LoadRecoversFieldByField ==
  \A p \in Procs :
    Loaded(p) /\ ~gh[p].read_failed =>
      /\ pc[p] # "init_raised"
      /\ mem[p].calories = StoredOrDefault(gh[p].loaded, "calories", 0)
      /\ mem[p].left_click_amount =
           StoredOrDefault(gh[p].loaded, "left_click_amount", DEFAULT_LEFT_CLICK_AMOUNT)
      /\ mem[p].right_click_amount =
           StoredOrDefault(gh[p].loaded, "right_click_amount", DEFAULT_RIGHT_CLICK_AMOUNT)
      /\ mem[p].session_start = StoredInstantOrNow(gh[p].loaded)

NonNegative(r) ==
  r.calories >= 0 /\ r.left_click_amount >= 0 /\ r.right_click_amount >= 0

\* C16: in every reachable state, after any sequence of load, add, subtract,
\* reset and adjust-amount actions, the in-memory counter and the counter
\* stored in state.json are non-negative, and so are both step amounts.
C16_CounterAndAmountsNonNegative ==
  /\ \A p \in Procs : NonNegative(mem[p])
  /\ NonNegative(state_file)
  /\ \A p \in Procs : NonNegative(loc[p].aw_json)

\* A subtraction of more than the counter holds has been clamped and saved.
C16_SubtractionClamped ==
  \E p \in Procs :
    /\ pc[p] = "orc_ret" /\ loc[p].aw_error = "none"
    /\ gh[p].calories_before > 0
    /\ gh[p].calories_before - mem[p].right_click_amount < 0
    /\ mem[p].calories = 0 /\ state_file.calories = 0

\* A call of prune_archive_log by p (made at the end of prune_session_log)
\* has returned.
ArchivePruneReturns(p) == pc[p] = "psl_ret" /\ loc[p].pal_read # "none"

\* C17 as stated: after any call of prune_archive_log returns, the archive
\* log contains no entry whose timestamp is earlier than now minus
\* archive_retention_days.
C17_AfterAnyArchivePrune ==
  \A p \in Procs :
    ArchivePruneReturns(p) =>
      OldEntries(archive_log, now - ARCHIVE_RETENTION_DAYS * Day) = {}

\* C17, amended: after a call of prune_archive_log that read and rewrote the
\* archive without I/O failure returns, neither the archive nor the active log
\* contains an entry earlier than now minus archive_retention_days: the
\* discarded entries are in no file.  A call whose read or rewrite raised
\* OSError returns as well and has discarded nothing.
C17_AfterCompletedArchivePrune ==
  \A p \in Procs :
    /\ ArchivePruneReturns(p) /\ loc[p].pal_read \in {"ok", "no_file"}
         /\ loc[p].aw_error = "none"
      => /\ OldEntries(archive_log, now - ARCHIVE_RETENTION_DAYS * Day) = {}
         /\ OldEntries(session_log, now - ARCHIVE_RETENTION_DAYS * Day) = {}
    /\ ArchivePruneReturns(p) /\ (loc[p].pal_read = "failed" \/ loc[p].aw_error # "none")
      => Range(Events(gh[p].archive_before)) \subseteq Range(Events(archive_log))

\* An entry handed to the archive by this prune was older than the archive
\* retention and has been discarded by the archive prune of the same call.
C17_ArchivedEntryDiscarded ==
  \E p \in Procs :
    /\ ArchivePruneReturns(p) /\ loc[p].pal_read = "ok" /\ loc[p].aw_error = "none"
    /\ \E e \in Range(loc[p].archived_lines) :
         ~WithinHorizon(e) /\ e \notin Range(Events(archive_log))

\* The calendar days of the 7-day window ending on the day of t, and the
\* entries of a log that count for one day.
WeekOf(t) == (date(t) - 6)..date(t)

QualifyingOn(f, day) ==
  LET Counts(e) == /\ e.action \in {"add", "subtract", "reset", "init"}
                   /\ date(parse_iso_datetime(e.timestamp)) = day
  IN  SelectSeq(Events(f), Counts)

WeeklyReturns(p) == pc[p] = "ovw_ret"

\* C18: when no qualifying event exists anywhere in the 7-day window,
\* build_last_week_summary returns a single "no data" message string and not
\* a structured summary, so the caller branching on the result shape takes
\* the string branch.
C18_NoDataIsMessage ==
  \A p \in Procs :
    WeeklyReturns(p) /\ (\A day \in WeekOf(now) : QualifyingOn(session_log, day) = <<>>) =>
      /\ loc[p].summary.shape = "str"
      /\ loc[p].dialog = "show_text_dialog"

RECURSIVE SumDelta(_)
SumDelta(entries) ==
  IF entries = <<>> THEN 0 ELSE Head(entries).delta + SumDelta(Tail(entries))

\* C19: for every active-log content, build_last_week_summary computes, for
\* each calendar day of the 7-day window ending today, a net equal to the sum
\* of delta over exactly the entries with action add, subtract, reset or init
\* whose local date is that day, and marks the day as having data exactly
\* when at least one such entry exists.
C19_DailyNetIsSumOfQualifying ==
  \A p \in Procs :
    WeeklyReturns(p) /\ loc[p].summary.shape = "dict" =>
      /\ DOMAIN loc[p].summary.totals_net = WeekOf(now)
      /\ DOMAIN loc[p].summary.day_has_data = WeekOf(now)
      /\ \A day \in WeekOf(now) :
           /\ loc[p].summary.totals_net[day] = SumDelta(QualifyingOn(session_log, day))
           /\ loc[p].summary.day_has_data[day] = (QualifyingOn(session_log, day) # <<>>)

\* The summary of a log with two qualifying entries on one day and an entry
\* that does not qualify.
C19_MixedLogSummed ==
  \E p \in Procs :
    /\ WeeklyReturns(p) /\ loc[p].summary.shape = "dict"
    /\ \E day \in WeekOf(now) :
         /\ Len(QualifyingOn(session_log, day)) = 2
         /\ loc[p].summary.totals_net[day] = 50
    /\ \E e \in Range(Events(session_log)) : e.action = "note"

\* The included days: the days of the window from the day of the earliest
\* qualifying entry in it up to today.
IncludedDays(f, t) ==
  {day \in WeekOf(t) :
     \E earlier \in WeekOf(t) : earlier <= day /\ QualifyingOn(f, earlier) # <<>>}

RECURSIVE SumOfNets(_, _)
SumOfNets(f, days) ==
  IF days = {} THEN 0
  ELSE LET day == CHOOSE d \in days : TRUE
       IN  SumDelta(QualifyingOn(f, day)) + SumOfNets(f, days \ {day})

\* average is total / count to one decimal with an explicit sign.
IsAverage(average, total, count) ==
  LET magnitude == IF total < 0 THEN -total ELSE total
      error == 10 * magnitude - average.tenths * count
  IN  /\ average.negative = (total < 0)
      /\ 2 * error <= count /\ -2 * error <= count

TotalAndAverage(p) ==
  LET summary == loc[p].summary
      included == IncludedDays(session_log, now)
  IN  /\ summary.days_count = Cardinality(included)
      /\ summary.total_net = SumOfNets(session_log, included)
      /\ summary.days_count > 0 =>
           IsAverage(summary.average, summary.total_net, summary.days_count)

\* The log 'day 1 init 0, day 1 add +50, day 2 subtract -10' (days 9 and 10).
ExampleLog == <<WrittenLines[3], WrittenLines[4], WrittenLines[6]>>

ExampleNets(p) ==
  /\ loc[p].summary.totals_net[9] = 50 /\ loc[p].summary.day_has_data[9]
  /\ loc[p].summary.totals_net[10] = -10 /\ loc[p].summary.day_has_data[10]
  /\ loc[p].summary.total_net = 40

Plus(tenths) == [negative |-> FALSE, tenths |-> tenths]

\* C20 as stated: the tracked-period total is the sum of the nets of the
\* included days and the daily average is that total divided by the number of
\* included days (one decimal, explicit sign); for the log 'day 1 init 0,
\* day 1 add +50, day 2 subtract -10' in a window including these dates the
\* summary reports day 1 net +50, day 2 net -10, total +40 and average +20.0.
C20_ExampleAverageTwenty ==
  \A p \in Procs :
    WeeklyReturns(p) /\ loc[p].summary.shape = "dict" =>
      /\ TotalAndAverage(p)
      /\ session_log.lines = ExampleLog =>
           ExampleNets(p) /\ loc[p].summary.average = Plus(200)

\* C20, amended: total and average as stated; for the example log the summary
\* reports day 1 net +50, day 2 net -10 and total +40, and the average is
\* +20.0 when today is day 2 (two included days) and +13.3 when today is the
\* day after (three included days, the last one without data).
C20_ExampleAverageByToday ==
  \A p \in Procs :
    WeeklyReturns(p) /\ loc[p].summary.shape = "dict" =>
      /\ TotalAndAverage(p)
      /\ session_log.lines = ExampleLog =>
           /\ ExampleNets(p)
           /\ date(now) = 10 => loc[p].summary.average = Plus(200)
           /\ date(now) = 11 => loc[p].summary.average = Plus(133)

\* The example log summarised on the day after its last entry.
C20_ExampleOnTheDayAfter ==
  \E p \in Procs :
    /\ WeeklyReturns(p) /\ loc[p].summary.shape = "dict"
    /\ session_log.lines = ExampleLog /\ date(now) = 11
    /\ loc[p].summary.days_count = 3 /\ loc[p].summary.average = Plus(133)

\* The days of a set in calendar order.
RECURSIVE InCalendarOrder(_)
InCalendarOrder(days) ==
  IF days = {} THEN <<>>
  ELSE LET first == CHOOSE d \in days : \A other \in days : d <= other
       IN  <<first>> \o InCalendarOrder(days \ {first})

\* C21: the days included in the weekly summary are exactly the window days
\* from the day of the earliest qualifying event in the window through today,
\* in calendar order; days before that appear in neither the text lines nor
\* daily_bars, every included day has one text line (net or 'no data'), and
\* daily_bars lists exactly the included days that have data, in calendar
\* order.
C21_IncludedDaysListed ==
  \A p \in Procs :
    WeeklyReturns(p) /\ loc[p].summary.shape = "dict" =>
      LET summary == loc[p].summary
          included == IncludedDays(session_log, now)
          with_data == {day \in included : QualifyingOn(session_log, day) # <<>>}
      IN  /\ [k \in 1..Len(summary.lines) |-> summary.lines[k].day]
               = InCalendarOrder(included)
          /\ \A k \in 1..Len(summary.lines) :
               LET line == summary.lines[k] IN
               /\ line.has_data = (line.day \in with_data)
               /\ line.has_data => line.net = SumDelta(QualifyingOn(session_log, line.day))
          /\ [k \in 1..Len(summary.daily_bars) |-> summary.daily_bars[k].day_key]
               = InCalendarOrder(with_data)
          /\ \A k \in 1..Len(summary.daily_bars) :
               summary.daily_bars[k].net
                 = SumDelta(QualifyingOn(session_log, summary.daily_bars[k].day_key))

\* A summary that leaves out the days before the first entry, has a line
\* without data for today and fewer bars than lines.
C21_LeadingDaysLeftOut ==
  \E p \in Procs :
    /\ WeeklyReturns(p) /\ loc[p].summary.shape = "dict"
    /\ Len(loc[p].summary.lines) \in 2..6
    /\ loc[p].summary.lines[1].day > date(now) - 6
    /\ ~loc[p].summary.lines[Len(loc[p].summary.lines)].has_data
    /\ Len(loc[p].summary.daily_bars) \in 1..(Len(loc[p].summary.lines) - 1)

\* clear_log has returned True to on_clear_log.
ClearLogReturnedTrue(p) == pc[p] = "ocl_check" /\ loc[p].aw_error = "none"

\* C22: clearing the active log with clear_log and immediately calling
\* read_log_text returns the 'No log events yet.' message, whatever the log
\* held before: right after clear_log returned True the log is an empty file,
\* and a view of an empty file that meets no read error shows that message.
C22_ClearedLogReadsEmpty ==
  \A p \in Procs :
    /\ ClearLogReturnedTrue(p) =>
         /\ session_log = TextFile(<<>>)
         /\ read_formatted_jsonl_text(session_log, "No log events yet.")
              = Message("No log events yet.")
    /\ pc[p] = "ovl_ret" /\ session_log = TextFile(<<>>)
         /\ loc[p].view # Message("Failed to read log.")
       => loc[p].view = Message("No log events yet.")

\* The log is viewed after an add was logged and the log was then cleared.
C22_ViewedAfterClear ==
  \E p \in Procs :
    /\ pc[p] = "ovl_ret" /\ faults = 0
    /\ mem[p].calories > 0 /\ session_log = TextFile(<<>>)
    /\ loc[p].view = Message("No log events yet.")

\* Positions of a process inside acquire_instance_lock, at the check of its
\* result and at load_state.
AcquiringOrLoading == BeforeLockCheck \cup {"init_load"}

\* A step in which an I/O call of a storage operation other than the lock
\* acquisition and load_state raises OSError leaves the process running with
\* its counter, amounts and session_start as they were, and every step leaves
\* a process that is inside __init__ or a handler able to take its next one.
FailureIsLocal ==
  \A p \in Procs :
    /\ faults' = faults + 1 /\ io'.p = p /\ pc[p] \notin AcquiringOrLoading
         => pc'[p] # "off" /\ mem'[p] = mem[p]
    /\ pc'[p] \notin {"off", "idle"} => (ENABLED StepMenu(p))'

\* C23 as stated: no failure other than lock contention at startup is fatal;
\* for every I/O failure in save_state, append_session_event, the prunes, the
\* clears, ensure_initial_log_entry and the log readers the operation returns
\* without raising, the in-memory snapshot is not altered by the failing call
\* and the process can run further actions.
C23_OnlyContentionIsFatal ==
  [][ /\ FailureIsLocal
      /\ \A p \in Procs :
           pc[p] # "off" /\ pc'[p] = "off" /\ gh[p].handler = "init" => Others(p) # {}
    ]_vars

\* C23, amended: I/O failures in the listed operations are local as stated;
\* a startup ends the process only at the check of the lock, when
\* acquire_instance_lock returned False, which it does on lock contention
\* and also when creating the directory, opening, locking or writing the
\* lock file raises OSError.
C23_FailuresAreLocal ==
  [][ /\ FailureIsLocal
      /\ \A p \in Procs :
           pc[p] # "off" /\ pc'[p] = "off" /\ gh[p].handler = "init"
             => pc[p] = "init_lock_check" /\ loc[p].acq_ret = "False"
    ]_vars

\* Two adds of which the first was not logged because its append failed: the
\* second one has been logged and saved.
C23_ClickAfterFailedAppend ==
  \E p \in Procs :
    /\ pc[p] = "olc_ret" /\ loc[p].ase_ret = "True" /\ loc[p].aw_error = "none"
    /\ mem[p].calories = 2 * DEFAULT_LEFT_CLICK_AMOUNT
    /\ state_file.calories = mem[p].calories
    /\ Len(SelectSeq(logged, LAMBDA e : e.action = "add")) = 1

----------------------------------------------------------------------------
\* C24: release_instance_lock always returns, and when it has returned the
\* storage object holds no lock: its lock_fd is None and it is not among the
\* holders of the flock, whether the lock was never acquired, was released
\* before, or flock(LOCK_UN) or os.close failed.  No release leaves a lock
\* behind that nobody holds, so an acquire by another object is granted
\* whenever no object holds the lock.
Releasing == {"rel_unlock", "rel_close", "rel_ret"}

C24_ReleaseIdempotentAndSafe ==
  \A p \in Procs :
    /\ pc[p] = "rel_ret" => ~mem[p].lock_fd /\ p \notin flocked
    /\ pc[p] \in Releasing => ENABLED StepRelease(p)
    /\ pc[p] = "client" /\ ~mem[p].lock_fd => p \notin flocked
    /\ pc[p] = "acq_flock" /\ (\A q \in Procs \ {p} : ~mem[q].lock_fd /\ pc[q] \in {"client", "rel_ret"})
         => flock_grants(p, flocked)

\* C24 witness: one object acquired the lock and released it twice, and after
\* that the other object acquired the lock.
C24_AcquiredAfterSecondRelease ==
  \E p \in Procs : \E q \in Procs \ {p} :
    /\ pc[p] = "client" /\ gh[p].releases = 2 /\ loc[p].acq_ret = "True"
    /\ ~mem[p].lock_fd
    /\ pc[q] = "client" /\ mem[q].lock_fd /\ loc[q].acq_ret = "True"
    /\ flocked = {q}

----------------------------------------------------------------------------
\* C25: no line of the active log aborts a prune: prune_session_log never
\* ends by an exception, and when it has rewritten the log every line that
\* was not an entry with a parseable timestamp is gone from the active log
\* and was not put into the archive, while every entry with a parseable
\* timestamp was kept or archived.
Corrupt(f) == {l \in Range(ReadLines(f)) : ~IsEvent(l)}

PruneRewrote(p) == pc[p] = "psl_ret" /\ loc[p].psl_result = "rewritten"

C25_CorruptLinesNeverAbortPrune ==
  \A p \in Procs :
    /\ pc[p] # "psl_raised"
    /\ PruneRewrote(p) =>
         /\ Corrupt(session_log) = {}
         /\ Corrupt(archive_log) \subseteq Corrupt(gh[p].archive_before)
         /\ \A e \in Range(Events(gh[p].log_before)) :
              \/ e \in Range(Events(session_log))
              \/ e \in Range(loc[p].archived_lines)

\* The same statement for logs in which every JSON document is an object.
C25_WithoutNonObjectLines ==
  \A p \in Procs :
    (\A q \in Procs : gh[q].handler = "init" => Value \notin Range(ReadLines(session_log)))
      => /\ pc[p] # "psl_raised"
         /\ PruneRewrote(p) =>
              /\ Corrupt(session_log) = {}
              /\ Corrupt(archive_log) \subseteq Corrupt(gh[p].archive_before)
              /\ \A e \in Range(Events(gh[p].log_before)) :
                   \/ e \in Range(Events(session_log))
                   \/ e \in Range(loc[p].archived_lines)

----------------------------------------------------------------------------
\* C26: when a prune of the active log has completed, an entry that a kill
\* between the archive append and the rewrite had left in both logs is there
\* once: no entry has more copies in the two logs together than it had in the
\* one of the two logs that held the most copies of it when the prune began.
Copies(f, e) == Count(Events(f), e)

C26_DuplicationIsTemporary ==
  \A p \in Procs :
    PruneRewrote(p) =>
      \A e \in Range(Events(gh[p].log_before)) :
        Copies(session_log, e) + Copies(archive_log, e)
          <= Max(Copies(gh[p].log_before, e), Copies(gh[p].archive_before, e))

----------------------------------------------------------------------------
\* C27: every step that changes state.json, session_log.jsonl or
\* log_archive.jsonl is the os.replace of the atomic writer, and no step
\* leaves a partial record in one of the three files, so that a kill after
\* any step finds each file complete.
Complete(f) == f.exists => ~f.torn

C27_EveryMutationIsAtomic ==
  [][ /\ (state_file' # state_file \/ session_log' # session_log \/ archive_log' # archive_log)
           => \E p \in Procs : pc[p] = "aw_replace" /\ pc'[p] # "aw_replace"
      /\ Complete(session_log')
      /\ Complete(archive_log')
      /\ state_file'.exists => state_file'.valid ]_vars

----------------------------------------------------------------------------
\* C28 as stated: ensure_initial_log_entry, when its own read and write do
\* not fail, appends exactly one entry {session_start, 0, counter, 'init'}
\* when the active log has no entry with a parseable timestamp and leaves the
\* log unchanged when it has one, and a startup of a run without I/O failure
\* ends with a parseable entry in the log.
Seeded(p, before, after) ==
  Events(after) = Append(Events(before),
                         [kind |-> "entry", action |-> "init", delta |-> 0,
                          calories_after |-> mem[p].calories,
                          timestamp |-> isoformat_seconds(mem[p].session_start)])

StartupWithoutFailure(p) ==
  /\ pc[p] # "init_ret" /\ pc'[p] = "init_ret"
  /\ faults' = 0

C28_EnsureAppendsOneInitEntry ==
  [][ \A p \in Procs :
        /\ pc[p] = "init_ensure" /\ pc'[p] # "off" /\ faults' = faults
             => /\ session_log' = session_log
                /\ pc'[p] = "init_ret" <=> session_log_has_events(session_log)
        /\ pc[p] = "eil_write" /\ pc'[p] = "init_ret" /\ faults' = faults
             => Seeded(p, session_log, session_log')
        /\ StartupWithoutFailure(p) => Events(session_log') # <<>> ]_vars

\* C28: the same, with what the I/O failures do.  The entry is appended iff
\* the read found no entry with a parseable timestamp or the read failed; it
\* is the only change of the log when its write does not fail and the log does
\* not end in an unterminated fragment (the entry would be merged with it);
\* when the write fails, the log gains that entry or no entry.  A startup of
\* a run without I/O failure ends with a parseable entry in the log.
C28_EnsureSeedsInitEntry ==
  [][ \A p \in Procs :
        /\ pc[p] = "init_ensure" /\ pc'[p] # "off"
             => /\ session_log' = session_log
                /\ pc'[p] = "init_ret"
                     <=> session_log_has_events(session_log) /\ faults' = faults
        /\ pc[p] = "eil_write" /\ pc'[p] = "init_ret"
             => IF faults' = faults /\ ~session_log.torn
                  THEN /\ Seeded(p, session_log, session_log')
                       /\ Len(ReadLines(session_log')) = Len(ReadLines(session_log)) + 1
                  ELSE \/ Seeded(p, session_log, session_log')
                       \/ Events(session_log') = Events(session_log)
        /\ StartupWithoutFailure(p) => Events(session_log') # <<>> ]_vars

\* C28 witness: after the counter was raised and the whole log was archived,
\* a restart has seeded the log with the init entry of the stored counter.
C28_SeededWithStoredCounter ==
  \E p \in Procs :
    /\ pc[p] = "init_ret"
    /\ mem[p].calories > 0
    /\ Len(Events(session_log)) = 1
    /\ Seeded(p, NoFile, session_log)
    /\ archive_log.exists

----------------------------------------------------------------------------
\* The step of __init__ a process is in: 1 acquire the lock, 2 load the
\* state, 3 save the state (passed at once when nothing is to be saved),
\* 4 prune the active log, 5 ensure the initial entry, 6 done.
Phase(p) ==
  IF gh[p].handler # "init" THEN 0
  ELSE IF pc[p] \in BeforeLockCheck \cup {"init_lock_check"} THEN 1
  ELSE IF pc[p] = "init_load" THEN 2
  ELSE IF pc[p] = "init_prune" \/ "init_prune" \in Range(stack[p]) THEN 3
  ELSE IF "init_ensure" \in Range(stack[p]) THEN 4
  ELSE IF pc[p] \in {"init_ensure", "eil_write"} THEN 5
  ELSE IF pc[p] = "init_ret" THEN 6
  ELSE 0

\* load_state reported needs_resave in this startup.
NeedsResave(p) == gh[p].read_failed \/ load_state(gh[p].loaded, now).needs_persist

LogFiles == {"session_log", "archive_log"}
Touched(p) == IF io'.p = p THEN io'.reads \cup io'.writes ELSE {}

StartupInOrder(p) ==
  /\ Phase(p) > 0 /\ Phase(p)' > 0 => Phase(p)' \in {Phase(p), Phase(p) + 1}
  /\ Phase(p) > 0 /\ "state" \in Touched(p) => Phase(p) \in {2, 3}
  /\ Phase(p) > 0 /\ Touched(p) \cap LogFiles # {} =>
       /\ Phase(p) \in {4, 5}
       /\ mem[p].lock_fd
       /\ gh[p].saves = IF NeedsResave(p) THEN 1 ELSE 0

\* C29 as stated: the steps of a startup occur in the order acquire, load,
\* save (when load reported needs_resave), prune, ensure, and no log file is
\* read or written before the repaired snapshot has been saved.
C29_RepairedSnapshotSavedFirst ==
  [][ \A p \in Procs :
        /\ StartupInOrder(p)
        /\ Phase(p) > 0 /\ Touched(p) \cap LogFiles # {} /\ NeedsResave(p)
             => state_file = Snapshot(mem[p]) ]_vars

\* C29: the steps of a startup occur in the order acquire, load, save (when
\* load reported needs_resave), prune, ensure; state.json is read and written
\* only in the load and save steps, and no log file is read or written before
\* the lock is held and save_state, when it was due, has returned.  The save
\* may have failed: its OSError is logged and the startup goes on.
C29_StartupOrder ==
  [][ \A p \in Procs : StartupInOrder(p) ]_vars

\* C29 witness: a startup that had to save the repaired snapshot has saved it
\* and has then seeded the active log.
C29_SavedThenSeeded ==
  \E p \in Procs :
    /\ Phase(p) = 6
    /\ NeedsResave(p) /\ gh[p].saves = 1
    /\ state_file = Snapshot(mem[p])
    /\ io.p = p /\ "session_log" \in io.writes
    /\ Events(session_log) # <<>>

----------------------------------------------------------------------------
\* C30: when on_left_click, on_right_click or on_reset returns after its
\* append succeeded, the entry it appended has calories_after equal to the
\* in-memory counter; an add entry has delta = left_click_amount and
\* calories_after = before + left_click_amount; a subtract entry has
\* delta = -(before - max(0, before - right_click_amount)), which is not 0; a
\* reset entry has delta 0 and calories_after 0.  on_right_click calls the
\* append iff the counter changed.
Appended(p) ==
  /\ pc[p] \in {"olc_ret", "orc_ret", "rst_ret"}
  /\ loc[p].ase_ret = "True"

Clamped(before, amount) == IF before > amount THEN before - amount ELSE 0

C30_EntryCarriesCounterAndChange ==
  \A p \in Procs :
    /\ Appended(p) =>
         /\ logged # <<>>
         /\ LET e == logged[Len(logged)]
                before == gh[p].calories_before
            IN  /\ e.calories_after = mem[p].calories
                /\ e.timestamp = isoformat_seconds(now)
                /\ pc[p] = "olc_ret" =>
                     /\ e.action = "add"
                     /\ e.delta = mem[p].left_click_amount
                     /\ e.calories_after = before + mem[p].left_click_amount
                /\ pc[p] = "orc_ret" =>
                     /\ e.action = "subtract"
                     /\ e.delta = -(before - Clamped(before, mem[p].right_click_amount))
                     /\ e.delta # 0
                /\ pc[p] = "rst_ret" =>
                     e.action = "reset" /\ e.delta = 0 /\ e.calories_after = 0
    /\ pc[p] = "orc_ret" =>
         (loc[p].ase_ret = "none" <=> mem[p].calories = gh[p].calories_before)

\* C30 witness: a right click on a counter smaller than right_click_amount
\* has logged the subtraction of the whole counter.
C30_ClampedSubtractLogged ==
  \E p \in Procs :
    /\ pc[p] = "orc_ret" /\ loc[p].ase_ret = "True"
    /\ gh[p].calories_before > 0
    /\ gh[p].calories_before < mem[p].right_click_amount
    /\ logged[Len(logged)].delta = -gh[p].calories_before
    /\ mem[p].calories = 0

----------------------------------------------------------------------------
\* The last line of the active log carries the in-memory counter of p.
LastEntryAgrees(p) ==
  LET ls == ReadLines(session_log) IN
  ls # <<>> => ls[Len(ls)].kind = "entry" /\ ls[Len(ls)].calories_after = mem[p].calories

\* C31 as stated: in every state of a run without I/O failure or kill, from
\* an empty store, the last entry of a non-empty active log carries the
\* in-memory counter of the running process, and when no action is in
\* progress state.json holds the in-memory counter.
C31_LogAgreesInEveryState ==
  faults = 0 =>
    \A p \in Procs :
      /\ pc[p] # "off" => LastEntryAgrees(p)
      /\ pc[p] = "idle" => state_file.exists /\ state_file.calories = mem[p].calories

\* C31: in a run without I/O failure or kill, from an empty store, whenever
\* no action is in progress (the startup and every handler have returned) the
\* last entry of a non-empty active log carries the in-memory counter and
\* state.json holds the in-memory counter.
C31_SnapshotAndLogAgree ==
  faults = 0 =>
    \A p \in Procs :
      pc[p] = "idle" =>
        /\ LastEntryAgrees(p)
        /\ state_file.exists /\ state_file.calories = mem[p].calories

\* C31 witness: after an add and a subtract without any failure the log ends
\* with the subtract entry, and log, state.json and memory hold the same
\* non-zero counter.
C31_AgreeAfterSubtract ==
  \E p \in Procs :
    /\ pc[p] = "idle" /\ faults = 0
    /\ Len(session_log.lines) >= 3
    /\ session_log.lines[Len(session_log.lines)].action = "subtract"
    /\ mem[p].calories > 0
    /\ session_log.lines[Len(session_log.lines)].calories_after = mem[p].calories
    /\ state_file.calories = mem[p].calories

====
